---- MODULE Spec2Model ----
(***************************************************************************)
(* Blink quorum protocol of src/cryptonote_protocol/quorumnet.cpp:         *)
(* the per-node blink handlers (handle_blink, handle_blink_signature,      *)
(* process_blink_signatures) and the submitter-side aggregator             *)
(* (send_blink, common_blink_response).                                    *)
(*                                                                         *)
(* Handlers run on worker threads.  Each handler is cut into one action    *)
(* per critical section (or lock-free stretch), so that the interleavings  *)
(* of the model are those the locks of the code allow.                     *)
(***************************************************************************)
EXTENDS Integers, Sequences, FiniteSets, Bags, TLC

\* ------------------------------------------------------------------ bounds
\* inbound blink / blink_sign messages one service node handles
MaxMsgs == 3
\* send_blink calls of the submitting node
MaxSubmits == 3
\* values the random tag generator returns, besides 0
MaxTag == 2
\* last reading of the submitter's clock
MaxTime == 3
\* votes in one call of relay_votes
MaxBatch == 2

\* --------------------------------------------------------------- constants
\* scaled down from 10 / 7; BLINK_MIN_VOTES > BLINK_SUBQUORUM_SIZE / 2
BLINK_SUBQUORUM_SIZE == 3
BLINK_MIN_VOTES == 2
NUM_BLINK_QUORUMS == 2
\* scaled down from 1000
MAX_ACTIVE_PROMISES == 2
\* lifetime of a pending submission in clock ticks (30 s in the code)
BLINK_TIMEOUT == 2
\* entry points one submission is sent to (4 in the code)
SendFanout == 3

\* service nodes whose handlers are modelled, their worker threads, and the
\* submitting client (not a service node).  A node handles messages only in the
\* specifications that give it a budget of messages; elsewhere "v3" and "v4"
\* are played by the environment.
Nodes == {"n1", "n2", "v3", "v4"}
Workers == {"w1", "w2"}
Client == "client"
\* a key that is not the key of the validator of the slot it signs for
Forger == "forger"

SubQ == 0 .. (NUM_BLINK_QUORUMS - 1)
Positions == 0 .. (BLINK_SUBQUORUM_SIZE - 1)

\* The quorum source: the validators of Q and Q' for the blink height.
\* Index 1 of the tuple is subquorum 0 (Q), index 2 is subquorum 1 (Q').
QuorumChoices ==
    { << <<"n1", "n2", "v3">>, <<"n2", "n1", "v4">> >>,
      << <<"n1", "v3">>,       <<"v4", "n2", "v3">> >>,
      << <<"n1", "n2", "v3">>, <<"v4">> >> }

\* every service node key of the directory
AllValidators == {"n1", "n2", "v3", "v4"}
\* The identity directory: the service nodes that are active and have a
\* published x25519 key, ip and port.
ActiveChoices == { AllValidators, {"n1"} }

\* the current blockchain height of the nodes
LocalHeights == {10}
\* heights are unsigned: arithmetic on them wraps at this modulus (2^64 in the
\* code, scaled down)
HeightModulus == 64
\* hash of the blink tx ("H"), another 32-byte value, a value of another length
TxHash == "H"

VARIABLES
    blink_quorums,   \* the two subquorums (fixed during a behaviour)
    sn_active,       \* the active, reachable service nodes (fixed)
    local_height,    \* core.get_current_blockchain_height() (fixed)
    blinks,          \* node -> cache entry of the blink tx (SNNWrapper::blinks)
    signatures_,     \* node -> subquorum -> position -> slot of the blink_tx
    thr,             \* node -> worker -> the handler the worker is running
    msgs,            \* node -> inbound messages the node will still handle
    sent,            \* node -> bag of the messages the node has sent
    pending_blink_results,  \* submitter: tag -> pending submission
    future,          \* submitter: send_blink call -> value of its future
    sb,              \* submitter: send_blink call -> where the call is
    to_erase,        \* submitter: bag of tags whose handler set the promise
                     \* and has not yet erased the entry
    now,             \* submitter: the clock
    blink_net,       \* tagged blink messages sent to entry points
    delivered,       \* sender -> bag of its messages that have been handled
    vote_pool,       \* vote service: node -> the votes in its pool
    m_uptime_proof_seen,  \* quorum_cop: pubkey -> time of the proof recorded
    db_height,       \* BlockchainSQLite::height
    batch_sn_payments,    \* the table batch_sn_payments: address -> row
    chain,           \* the blocks the caller of BlockchainSQLite has on its chain
    ret              \* what the last call of quorum_cop / BlockchainSQLite returned

nodeVars == <<blink_quorums, sn_active, local_height, blinks, signatures_, thr, msgs, sent>>

subVars == <<pending_blink_results, future, sb, to_erase, now, blink_net, delivered>>

\* the state of the vote pool, of quorum_cop and of the reward ledger
otherVars == <<vote_pool, m_uptime_proof_seen, db_height, batch_sn_payments, chain, ret>>

vars == <<blink_quorums, sn_active, local_height, blinks, signatures_, thr, msgs, sent,
          pending_blink_results, future, sb, to_erase, now, blink_net, delivered,
          vote_pool, m_uptime_proof_seen, db_height, batch_sn_payments, chain, ret>>

\* ------------------------------------------------------------ blink_tx (F)
NoSig == [signer |-> "", bit |-> FALSE]
EmptySlot == [status |-> "none", sig |-> NoSig]

validators(qs, qi) == qs[qi + 1]

CountStatus(slots, qi, st) ==
    Cardinality({p \in Positions : slots[qi][p].status = st})

\* blink_tx::approved(): every subquorum has >= BLINK_MIN_VOTES approvals
approved(slots) ==
    \A qi \in SubQ : CountStatus(slots, qi, "approved") >= BLINK_MIN_VOTES

\* variant: a subquorum counts as lost one rejection early
rejected_early(slots, qs) ==
    \E qi \in SubQ :
        CountStatus(slots, qi, "rejected") >= Len(validators(qs, qi)) - BLINK_MIN_VOTES

\* blink_tx::rejected(): some subquorum can no longer reach BLINK_MIN_VOTES
rejected(slots, qs) ==
    \E qi \in SubQ :
        CountStatus(slots, qi, "rejected") > Len(validators(qs, qi)) - BLINK_MIN_VOTES

\* blink_tx::get_signature_status
get_signature_status(slots, qi, p) == slots[qi][p].status

\* blink_tx::add_prechecked_signature: stores into an empty slot and returns
\* true, leaves a filled slot alone and returns false
add_prechecked_signature(slots, qi, p, approval, sig) ==
    IF slots[qi][p].status = "none"
    THEN [ok |-> TRUE,
          slots |-> [slots EXCEPT ![qi][p] =
                        [status |-> IF approval THEN "approved" ELSE "rejected",
                         sig |-> sig]]]
    ELSE [ok |-> FALSE, slots |-> slots]

\* crypto::check_signature(btx.hash(approval), validator, signature): the
\* signature was made by `validator` over the hash that carries `approval`
check_signature(approval, validator, sig) ==
    sig.signer = validator /\ sig.bit = approval

\* ------------------------------------------------------- topology engine (D)
\* The connection matrix (quorumnet/conn_matrix.h): a ring, every position
\* sends to its successor and hears from its predecessor.
quorum_outgoing_conns(pos, size) ==
    IF pos < 0 \/ size < 2 THEN {} ELSE {(pos + 1) % size}

quorum_incoming_conns(pos, size) ==
    IF pos < 0 \/ size < 2 THEN {} ELSE {(pos + size - 1) % size}

Min(a, b) == IF a < b THEN a ELSE b

\* peer_info::my_position: 0-based index of the key in the quorum, -1 if absent
my_position(qs, me, qi) ==
    LET v == validators(qs, qi)
        found == {j \in 1 .. Len(v) : v[j] = me}
    IN IF found = {} THEN -1
       ELSE (CHOOSE j \in found : \A k \in found : j <= k) - 1

my_position_count(qs, me) ==
    Cardinality({qi \in SubQ : my_position(qs, me, qi) >= 0})

\* sn_list.get_pubkey_from_x25519: the primary key of a service node, "" (null)
\* for a key that is no service node
get_pubkey_from_x25519(x) == IF x \in AllValidators THEN x ELSE ""

\* variant: the exclude set is not consulted
need_remotes_all(qs, me, opportunistic, exclude) ==
    UNION { LET v == validators(qs, qi)
                pos == my_position(qs, me, qi)
                conns == quorum_outgoing_conns(pos, Len(v)) \cup
                         (IF opportunistic THEN quorum_incoming_conns(pos, Len(v)) ELSE {})
            IN {v[j + 1] : j \in conns}
          : qi \in SubQ }

\* peer_info constructor, first part: the keys looked up in the directory
need_remotes(qs, me, opportunistic, exclude) ==
    UNION { LET v == validators(qs, qi)
                pos == my_position(qs, me, qi)
                conns == quorum_outgoing_conns(pos, Len(v)) \cup
                         (IF opportunistic THEN quorum_incoming_conns(pos, Len(v)) ELSE {})
            IN {v[j + 1] : j \in conns} \ (exclude \cup {me})
          : qi \in SubQ }

remotes(qs, me, active, opportunistic, exclude) ==
    need_remotes(qs, me, opportunistic, exclude) \cap active

\* lines 388-398: the key add_peer is called with for the edge from subquorum
\* qi to the next subquorum (line 392 takes it from `validators`, the
\* subquorum of the node itself)
bridge_next(qs, me, qi) ==
    LET v == validators(qs, qi)
        pos == my_position(qs, me, qi)
    IN IF pos >= 0 /\ qi + 1 \in SubQ /\ my_position(qs, me, qi + 1) < 0
       THEN LET half == Min(Len(v), Len(validators(qs, qi + 1))) \div 2
            IN IF pos >= half /\ pos < half * 2 THEN {v[(pos - half) + 1]} ELSE {}
       ELSE {}

\* lines 403-411: the key add_peer is called with for the edge from subquorum
\* qi to the previous subquorum
bridge_prev(qs, me, qi) ==
    LET v == validators(qs, qi)
        pos == my_position(qs, me, qi)
    IN IF pos >= 0 /\ qi - 1 \in SubQ /\ my_position(qs, me, qi - 1) < 0
       THEN LET prev == validators(qs, qi - 1)
                half == Min(Len(v), Len(prev)) \div 2
            IN IF pos < half THEN {prev[(half + pos) + 1]} ELSE {}
       ELSE {}

\* peer_info::compute_peers: the keys add_peer is called with as strong
strong_targets(qs, me) ==
    UNION { LET v == validators(qs, qi)
                pos == my_position(qs, me, qi)
            IN IF pos < 0 THEN {}
               ELSE {v[j + 1] : j \in quorum_outgoing_conns(pos, Len(v))}
                    \cup bridge_next(qs, me, qi)
                    \cup bridge_prev(qs, me, qi)
          : qi \in SubQ }

\* ... and the keys add_peer is called with as weak (strong = false)
weak_targets(qs, me) ==
    UNION { LET v == validators(qs, qi)
                pos == my_position(qs, me, qi)
            IN IF pos < 0 THEN {}
               ELSE {v[j + 1] : j \in quorum_incoming_conns(pos, Len(v))}
          : qi \in SubQ }

\* peer_info::add_peer over all those calls: a key found in `remotes` becomes a
\* strong peer if some call adds it strong, a weak peer otherwise
strong_peers(qs, me, active, exclude) ==
    strong_targets(qs, me) \cap remotes(qs, me, active, TRUE, exclude)

weak_peers(qs, me, active, exclude) ==
    (weak_targets(qs, me) \cap remotes(qs, me, active, TRUE, exclude))
        \ strong_peers(qs, me, active, exclude)

\* variant: the relayed message carries a tag
relay_to_peers_tagged(qs, me, active, exclude, cmd, sigs) ==
    SetToBag({[to |-> p, cmd |-> cmd, optional |-> FALSE, tag |-> 1, e |-> "", sigs |-> sigs]
                : p \in strong_peers(qs, me, active, exclude)}
             \cup
             {[to |-> p, cmd |-> cmd, optional |-> TRUE, tag |-> 1, e |-> "", sigs |-> sigs]
                : p \in weak_peers(qs, me, active, exclude)})

\* peer_info::relay_to_peers: one message per peer, optional for a weak peer
relay_to_peers(qs, me, active, exclude, cmd, sigs) ==
    SetToBag({[to |-> p, cmd |-> cmd, optional |-> FALSE, tag |-> 0, e |-> "", sigs |-> sigs]
                : p \in strong_peers(qs, me, active, exclude)}
             \cup
             {[to |-> p, cmd |-> cmd, optional |-> TRUE, tag |-> 0, e |-> "", sigs |-> sigs]
                : p \in weak_peers(qs, me, active, exclude)})

\* --------------------------------------------------------- worker threads
\* A pending_signature: approval, subquorum, subquorum position, signature
PendingSig(approval, qi, position, signer, bit) ==
    [approval |-> approval, qi |-> qi, position |-> position,
     sig |-> [signer |-> signer, bit |-> bit]]

\* raised: the exception the last handler call of the worker left the handler
\* with ("" if it returned)
IdleThread ==
    [pc |-> "idle", tag |-> 0, pubkey |-> "", signatures |-> <<>>,
     reply_tag |-> 0, reply_pubkey |-> "", received_from |-> "",
     already_approved |-> FALSE, already_rejected |-> FALSE,
     now_approved |-> FALSE, now_rejected |-> FALSE, raised |-> ""]

\* the handler is left by an exception
Raise(n, w, what) == thr' = [thr EXCEPT ![n][w] = [IdleThread EXCEPT !.raised = what]]

EmptyEntry ==
    [present |-> FALSE, btxptr |-> FALSE, pending_sigs |-> {},
     reply_pubkey |-> "", reply_tag |-> 0]

Msg(to, cmd, optional, tag, e) ==
    [to |-> to, cmd |-> cmd, optional |-> optional, tag |-> tag, e |-> e, sigs |-> <<>>]

Send(n, bag) == sent' = [sent EXCEPT ![n] = @ (+) bag]

SetThread(n, w, t) == thr' = [thr EXCEPT ![n][w] = t]

\* get_blink_quorums: the quorums have an acceptable size and the checksum of
\* the message is the checksum of the local quorums (a checksum is modelled by
\* the quorums it was computed from)
get_blink_quorums_ok(qs, checksum) ==
    /\ \A qi \in SubQ :
          /\ Len(validators(qs, qi)) >= BLINK_MIN_VOTES
          /\ Len(validators(qs, qi)) <= BLINK_SUBQUORUM_SIZE
    /\ checksum = qs

\* ------------------------------------------- process_blink_signatures (H.3)
ValidPosition(qs, s) ==
    s.position >= 0 /\ s.position < Len(validators(qs, s.qi))

\* lines 626-647: the signatures of valid positions and empty slots
unfilled(slots, qs, sigs) ==
    SelectSeq(sigs, LAMBDA s : /\ ValidPosition(qs, s)
                               /\ get_signature_status(slots, s.qi, s.position) = "none")

\* variant: no signature is verified
verified_any(qs, sigs) == sigs

\* lines 655-672: the signatures that verify against the validator of their slot
verified(qs, sigs) ==
    SelectSeq(sigs, LAMBDA s : check_signature(s.approval,
                                   validators(qs, s.qi)[s.position + 1], s.sig))

\* lines 624-675: under the shared lock of the blink_tx drop the signatures of
\* invalid positions and of filled slots and sample approved() / rejected();
\* then, without a lock, drop the signatures that do not verify (a step on the
\* thread's own list only, taken together with the first)
pbs_check(n, w) ==
    LET t == thr[n][w]
        kept == verified(blink_quorums, unfilled(signatures_[n], blink_quorums, t.signatures))
    IN /\ t.pc = "pbs_check"
       /\ SetThread(n, w,
            IF kept = <<>> THEN IdleThread
            ELSE [t EXCEPT !.pc = "pbs_insert",
                           !.signatures = kept,
                           !.already_approved = approved(signatures_[n]),
                           !.already_rejected = rejected(signatures_[n], blink_quorums)])
       /\ UNCHANGED <<otherVars, blink_quorums, sn_active, local_height, blinks, signatures_, msgs, sent>>
       /\ UNCHANGED subVars

\* variant: every signature is stored, whatever the slot holds
RECURSIVE AddSignatures_overwrite(_, _, _)
AddSignatures_overwrite(slots, sigs, kept) ==
    IF sigs = <<>> THEN [slots |-> slots, kept |-> kept]
    ELSE LET s == Head(sigs)
         IN AddSignatures_overwrite(
                [slots EXCEPT ![s.qi][s.position] =
                    [status |-> IF s.approval THEN "approved" ELSE "rejected",
                     sig |-> s.sig]],
                Tail(sigs), Append(kept, s))

\* variant: a rejection replaces what the slot holds
RECURSIVE AddSignatures_rejection_wins(_, _, _)
AddSignatures_rejection_wins(slots, sigs, kept) ==
    IF sigs = <<>> THEN [slots |-> slots, kept |-> kept]
    ELSE LET s == Head(sigs)
             store == ~s.approval \/ slots[s.qi][s.position].status = "none"
         IN AddSignatures_rejection_wins(
                IF store
                THEN [slots EXCEPT ![s.qi][s.position] =
                        [status |-> IF s.approval THEN "approved" ELSE "rejected",
                         sig |-> s.sig]]
                ELSE slots,
                Tail(sigs), IF store THEN Append(kept, s) ELSE kept)

\* lines 684-703: add the signatures one by one, keeping those that were stored
RECURSIVE AddSignatures(_, _, _)
AddSignatures(slots, sigs, kept) ==
    IF sigs = <<>> THEN [slots |-> slots, kept |-> kept]
    ELSE LET s == Head(sigs)
             r == add_prechecked_signature(slots, s.qi, s.position, s.approval, s.sig)
         IN AddSignatures(r.slots, Tail(sigs),
                          IF r.ok THEN Append(kept, s) ELSE kept)

\* variant: any verdict is reported as bl_good
verdict_reply_good(t) ==
    IF t.reply_tag # 0 /\ t.reply_pubkey # ""
          /\ ((t.now_approved /\ ~t.already_approved)
                 \/ (t.now_rejected /\ ~t.already_rejected))
    THEN SetToBag({Msg(t.reply_pubkey, "bl_good", TRUE, t.reply_tag, "")})
    ELSE EmptyBag

\* lines 751-759: the verdict sent back to the submitter
verdict_reply(t) ==
    IF t.reply_tag # 0 /\ t.reply_pubkey # ""
    THEN IF t.now_approved /\ ~t.already_approved
         THEN SetToBag({Msg(t.reply_pubkey, "bl_good", TRUE, t.reply_tag, "")})
         ELSE IF t.now_rejected /\ ~t.already_rejected
              THEN SetToBag({Msg(t.reply_pubkey, "bl_bad", TRUE, t.reply_tag, "")})
              ELSE EmptyBag
    ELSE EmptyBag

\* lines 677-759: under the unique lock of the blink_tx store the signatures
\* and sample approved() / rejected() again; if a signature was stored, relay
\* the stored ones to the blink peers except the one they came from and send
\* the verdict if it changed between the two samples.  The sends touch no
\* state of the node and are taken in the same step as the critical section.
pbs_insert(n, w) ==
    LET t == thr[n][w]
        r == AddSignatures(signatures_[n], t.signatures, <<>>)
        after == [t EXCEPT !.signatures = r.kept,
                           !.now_approved = approved(r.slots),
                           !.now_rejected = rejected(r.slots, blink_quorums)]
        from == IF t.received_from = "" THEN "" ELSE get_pubkey_from_x25519(t.received_from)
        relay_exclude == IF from = "" THEN {} ELSE {from}
    IN /\ t.pc = "pbs_insert"
       /\ signatures_' = [signatures_ EXCEPT ![n] = r.slots]
       /\ IF r.kept = <<>>
          THEN UNCHANGED sent
          ELSE Send(n, relay_to_peers(blink_quorums, n, sn_active, relay_exclude,
                                      "blink_sign", r.kept)
                       (+) verdict_reply(after))
       /\ SetThread(n, w, IdleThread)
       /\ UNCHANGED <<otherVars, blink_quorums, sn_active, local_height, blinks, msgs>>
       /\ UNCHANGED subVars

\* ------------------------------------------------------ inbound `blink` (H)
\* variant: a message without a tag is answered as well
NoStart_untagged(m, e) == SetToBag({Msg(m.from, "bl_nostart", FALSE, m.tag, e)})

\* if (tag) m.reply("bl_nostart", ...), lines 815-816 and after every other check
NoStart(m, e) ==
    IF m.tag # 0 THEN SetToBag({Msg(m.from, "bl_nostart", FALSE, m.tag, e)}) ELSE EmptyBag

\* lines 809-825: the authorization height is within 2 of the local height
\* (unsigned arithmetic)
height_too_low(blink_height, height) ==
    blink_height < (height + HeightModulus - 2) % HeightModulus

height_too_high(blink_height, height) ==
    blink_height > (height + 2) % HeightModulus

\* lines 800-926: everything handle_blink does before it takes the unique lock
\* of the cache.  m.parts is the number of data parts; m.h is the height, -1
\* if the field is missing; m.t is the tx blob ("tx" parses to the tx with hash
\* TxHash, "junk" does not parse, "" is a missing field); m.hash is TxHash,
\* another 32-byte value, or "short" (not 32 bytes).
handle_blink(n, w, m) ==
    LET t == IdleThread
        entry == blinks[n]
        exclude == {get_pubkey_from_x25519(m.from)}
        fail(e) == /\ Send(n, NoStart(m, e))
                   /\ SetThread(n, w, IdleThread)
    IN /\ thr[n][w].pc = "idle"
       /\ msgs[n] > 0
       /\ msgs' = [msgs EXCEPT ![n] = @ - 1]
       /\ UNCHANGED <<otherVars, blink_quorums, sn_active, local_height, blinks, signatures_>>
       /\ IF m.parts # 1
          THEN /\ UNCHANGED sent
               /\ SetThread(n, w, IdleThread)
          ELSE IF m.h < 0
          THEN \* data.at("h"), line 810
               /\ UNCHANGED sent
               /\ Raise(n, w, "std::out_of_range")
          ELSE IF height_too_low(m.h, local_height) \/ height_too_high(m.h, local_height)
          THEN fail("Invalid blink authorization height")
          ELSE IF m.t = ""
          THEN fail("No transaction included in blink request")
          ELSE IF m.hash = "short"
          THEN fail("Invalid transaction hash")
          ELSE IF m.hash = TxHash /\ entry.present /\ entry.btxptr
          THEN \* already seen: lines 851-862
               /\ UNCHANGED sent
               /\ SetThread(n, w,
                    IF m.tag # 0 /\ entry.reply_tag = 0
                    THEN [t EXCEPT !.pc = "hb_dup_tag", !.tag = m.tag, !.pubkey = m.from]
                    ELSE IdleThread)
          ELSE IF ~get_blink_quorums_ok(blink_quorums, m.q)
          THEN fail("Unable to retrieve blink quorum")
          ELSE IF my_position_count(blink_quorums, n) = 0
          THEN fail("Blink tx relayed to non-blink quorum member")
          ELSE IF m.t = "junk"
          THEN fail("Failed to parse transaction data")
          ELSE IF m.hash # TxHash
          THEN fail("Invalid transaction hash")
          ELSE IF strong_peers(blink_quorums, n, sn_active, exclude) = {}
          THEN fail("No quorum peers are currently reachable")
          ELSE /\ UNCHANGED sent
               /\ SetThread(n, w, [t EXCEPT !.pc = "hb_install", !.tag = m.tag,
                                            !.pubkey = m.from])

\* lines 853-859, executed under the SHARED lock of the cache: the two stores
\* are not atomic with respect to other holders of the shared lock
hb_dup_tag(n, w) ==
    LET t == thr[n][w]
    IN /\ t.pc = "hb_dup_tag"
       /\ blinks' = [blinks EXCEPT ![n].reply_tag = t.tag]
       /\ SetThread(n, w, [t EXCEPT !.pc = "hb_dup_pubkey"])
       /\ UNCHANGED <<otherVars, blink_quorums, sn_active, local_height, signatures_, msgs, sent>>
       /\ UNCHANGED subVars

hb_dup_pubkey(n, w) ==
    LET t == thr[n][w]
    IN /\ t.pc = "hb_dup_pubkey"
       /\ blinks' = [blinks EXCEPT ![n].reply_pubkey = t.pubkey]
       /\ SetThread(n, w, IdleThread)
       /\ UNCHANGED <<otherVars, blink_quorums, sn_active, local_height, signatures_, msgs, sent>>
       /\ UNCHANGED subVars

\* the orders in which an unordered_set can be iterated
Orders(S) ==
    {f \in [1 .. Cardinality(S) -> S] : \A i, j \in 1 .. Cardinality(S) : f[i] = f[j] => i = j}

\* variant: the entry is not looked at again under the unique lock
seen_never(entry) == FALSE

\* line 934: another handler installed a blink_tx for the tx
seen(entry) == entry.btxptr

\* lines 930-946: under the unique lock of the cache install the blink_tx,
\* unless another thread did so first, and take over the pending signatures
hb_install(n, w) ==
    LET t == thr[n][w]
        entry == blinks[n]
    IN /\ t.pc = "hb_install"
       /\ IF seen(entry)
          THEN /\ SetThread(n, w, IdleThread)
               /\ UNCHANGED blinks
          ELSE \E order \in Orders(entry.pending_sigs) :
               /\ blinks' = [blinks EXCEPT ![n] =
                    [present |-> TRUE, btxptr |-> TRUE, pending_sigs |-> {},
                     reply_tag |-> IF t.tag > 0 THEN t.tag ELSE entry.reply_tag,
                     reply_pubkey |-> IF t.tag > 0 THEN t.pubkey ELSE entry.reply_pubkey]]
               /\ SetThread(n, w, [t EXCEPT !.pc = "hb_relay", !.signatures = order])
       /\ UNCHANGED <<otherVars, blink_quorums, sn_active, local_height, signatures_, msgs, sent>>
       /\ UNCHANGED subVars

\* lines 959-994: forward the blink to the peers except its sender, ask the
\* mempool (add_blink), sign the result for every subquorum this node is in,
\* and enter process_blink_signatures with the tag and sender of the message
own_signatures(qs, me, ok) ==
    LET RECURSIVE build(_)
        build(qi) ==
            IF qi >= NUM_BLINK_QUORUMS THEN <<>>
            ELSE (IF my_position(qs, me, qi) < 0 THEN <<>>
                  ELSE <<PendingSig(ok, qi, my_position(qs, me, qi), me, ok)>>)
                 \o build(qi + 1)
    IN build(0)

\* The relay and the signing touch no shared state of the node; they are
\* taken in one step with the first critical section of
\* process_blink_signatures (lines 624-675).
\* add_blink answers one of `results`.
hb_relay_mempool(n, w, results) ==
    LET t == thr[n][w]
    IN /\ t.pc = "hb_relay"
       /\ Send(n, relay_to_peers(blink_quorums, n, sn_active,
                                 {get_pubkey_from_x25519(t.pubkey)}, "blink", <<>>))
       /\ \E ok \in results :
            LET sigs == t.signatures \o own_signatures(blink_quorums, n, ok)
                kept == verified(blink_quorums, unfilled(signatures_[n], blink_quorums, sigs))
            IN SetThread(n, w,
                 IF kept = <<>> THEN IdleThread
                 ELSE [t EXCEPT !.pc = "pbs_insert",
                                !.signatures = kept,
                                !.reply_tag = t.tag,
                                !.reply_pubkey = t.pubkey,
                                !.received_from = "",
                                !.already_approved = approved(signatures_[n]),
                                !.already_rejected = rejected(signatures_[n], blink_quorums)])
       /\ UNCHANGED <<otherVars, blink_quorums, sn_active, local_height, blinks, signatures_, msgs>>
       /\ UNCHANGED subVars

hb_relay(n, w) == hb_relay_mempool(n, w, BOOLEAN)

\* ------------------------------------------------- inbound `blink_sign` (H)
\* lines 1033-1137 up to the cache lookup under the shared lock: m.sigs are the
\* signatures parsed from the i, p, r, s lists
handle_blink_signature(n, w, m) ==
    LET t == IdleThread
        entry == blinks[n]
    IN /\ thr[n][w].pc = "idle"
       /\ msgs[n] > 0
       /\ msgs' = [msgs EXCEPT ![n] = @ - 1]
       /\ UNCHANGED <<otherVars, blink_quorums, sn_active, local_height, blinks, signatures_, sent>>
       /\ IF m.h = 0
          THEN Raise(n, w, "std::invalid_argument")      \* line 1106
          ELSE IF ~get_blink_quorums_ok(blink_quorums, m.q)
          THEN Raise(n, w, "std::runtime_error")         \* line 1108
          ELSE IF entry.present /\ entry.btxptr
          THEN SetThread(n, w, [t EXCEPT !.pc = "pbs_check",
                                         !.signatures = m.sigs,
                                         !.reply_tag = entry.reply_tag,
                                         !.reply_pubkey = entry.reply_pubkey,
                                         !.received_from = m.from])
          ELSE SetThread(n, w, [t EXCEPT !.pc = "hs_delay", !.signatures = m.sigs])

\* lines 1128-1135: the tx is not known, keep the signatures for later
hs_delay(n, w) ==
    LET t == thr[n][w]
    IN /\ t.pc = "hs_delay"
       /\ blinks' = [blinks EXCEPT ![n].present = TRUE,
                                   ![n].pending_sigs = @ \cup {t.signatures[i] : i \in 1 .. Len(t.signatures)}]
       /\ SetThread(n, w, IdleThread)
       /\ UNCHANGED <<otherVars, blink_quorums, sn_active, local_height, signatures_, msgs, sent>>
       /\ UNCHANGED subVars

\* ------------------------------------------------------------ environment
\* The blink_sign messages quorum peers send for the blink tx.  A validator
\* signs one result for all of its slots and relays those signatures together
\* (lines 988-994), so the messages carry, for a validator other than the
\* receiver: its approvals; its rejections; for validator "v3", which may sign
\* both results, an approval followed by a rejection of the same slot and the
\* reverse.  Further: signatures that must not be stored (an approval signature
\* passed off as a rejection, an approval signed by another key, a position
\* beyond the subquorum); an empty list; a message with another checksum.
slots_of(qs, v) ==
    LET RECURSIVE build(_, _)
        build(qi, p) ==
            IF qi >= NUM_BLINK_QUORUMS THEN <<>>
            ELSE IF p >= Len(validators(qs, qi)) THEN build(qi + 1, 0)
            ELSE (IF validators(qs, qi)[p + 1] = v THEN << <<qi, p>> >> ELSE <<>>)
                 \o build(qi, p + 1)
    IN build(0, 0)

signed_by(qs, v, approval) ==
    LET sl == slots_of(qs, v)
    IN [i \in 1 .. Len(sl) |-> PendingSig(approval, sl[i][1], sl[i][2], v, approval)]

bad_signatures(qs, v) ==
    LET sl == slots_of(qs, v)
    IN IF sl = <<>> THEN <<>>
       ELSE << PendingSig(FALSE, sl[1][1], sl[1][2], v, TRUE),
               PendingSig(TRUE, sl[1][1], sl[1][2], Forger, TRUE),
               PendingSig(TRUE, sl[1][1], BLINK_SUBQUORUM_SIZE - 1, Forger, TRUE) >>

SigLists(qs, me) ==
    {signed_by(qs, v, a) : v \in AllValidators \ {me}, a \in BOOLEAN}
    \cup {<<signed_by(qs, "v3", TRUE)[1], signed_by(qs, "v3", FALSE)[1]>>,
          <<signed_by(qs, "v3", FALSE)[1], signed_by(qs, "v3", TRUE)[1]>>}
    \cup {bad_signatures(qs, "v4"), <<>>}

SignInputs(qs, me, height) ==
    {[from |-> "v3", h |-> height, q |-> qs, sigs |-> sigs] : sigs \in SigLists(qs, me)}
    \cup
    {[from |-> "v3", h |-> height, q |-> <<>>, sigs |-> <<>>]}

\* blink messages for the blink tx: forwarded by a quorum peer (no tag) or
\* submitted with a tag, well-formed or with one field wrong
BlinkOrigins == {<<0, "v3">>, <<1, Client>>, <<2, "v3">>}

BlinkInputs(qs, height) ==
    {[tag |-> o[1], from |-> o[2], parts |-> 1, h |-> height, q |-> qs, t |-> "tx",
      hash |-> TxHash]
        : o \in BlinkOrigins}
    \cup
    {[tag |-> 1, from |-> Client, parts |-> 1, h |-> height, q |-> <<>>, t |-> "tx",
      hash |-> TxHash]}

\* ------------------------------------------------ the service-node machine
FreeWorker(n, w) ==
    /\ msgs[n] > 0
    /\ thr[n][w].pc = "idle"
    /\ w = "w2" => thr[n]["w1"].pc # "idle"

RecvBlink(n, w) ==
    /\ FreeWorker(n, w)
    /\ \E m \in BlinkInputs(blink_quorums, local_height) : handle_blink(n, w, m)
    /\ UNCHANGED subVars

RecvBlinkSign(n, w) ==
    /\ FreeWorker(n, w)
    /\ \E m \in SignInputs(blink_quorums, n, local_height) : handle_blink_signature(n, w, m)
    /\ UNCHANGED subVars

NodeInitAt(topologies, budget, heights) ==
    /\ \E c \in topologies : blink_quorums = c[1] /\ sn_active = c[2]
    /\ local_height \in heights
    /\ blinks = [n \in Nodes |-> EmptyEntry]
    /\ signatures_ = [n \in Nodes |-> [qi \in SubQ |-> [p \in Positions |-> EmptySlot]]]
    /\ thr = [n \in Nodes |-> [w \in Workers |-> IdleThread]]
    /\ msgs \in budget
    /\ sent = [n \in Nodes |-> EmptyBag]

NodeInit(topologies, budget) == NodeInitAt(topologies, budget, LocalHeights)

NodeStep(n, w) ==
    \/ hb_dup_tag(n, w)
    \/ hb_dup_pubkey(n, w)
    \/ hb_install(n, w)
    \/ hb_relay(n, w)
    \/ hs_delay(n, w)
    \/ pbs_check(n, w)
    \/ pbs_insert(n, w)

\* ------------------------------------------------- submitter: send_blink (I)
Tags == 1 .. MaxTag
Submissions == 1 .. MaxSubmits

\* a future that has no value yet
Unset == <<"unset", "">>

IdleCall == [pc |-> "idle", tx_blob |-> "", tag |-> 0, remotes |-> {}]
DoneCall == [pc |-> "done", tx_blob |-> "", tag |-> 0, remotes |-> {}]

\* parse_and_validate_tx_from_blob: the hash of the tx, "" if the blob does not
\* parse
parse_and_validate_tx_from_blob(blob) ==
    IF blob = "tx" THEN TxHash
    ELSE IF blob = "tx2" THEN "H2"
    ELSE IF blob = "tx3" THEN "H3"
    ELSE ""

\* a value-initialised blink_result_data with the fields lines 1195-1197 set
blink_result_data(hash, promise, expiry) ==
    [hash |-> hash, promise |-> promise, expiry |-> expiry, remote_count |-> 0,
     nostart_count |-> 0, bad_count |-> 0, good_count |-> 0]

\* variant: a promise that can be set again
set_value_again(fut, p, v) == [ok |-> TRUE, fut |-> [fut EXCEPT ![p] = v]]

\* std::promise::set_value: stores the value once, throws future_error after
set_value(fut, p, v) ==
    IF fut[p] = Unset THEN [ok |-> TRUE, fut |-> [fut EXCEPT ![p] = v]]
    ELSE [ok |-> FALSE, fut |-> fut]

\* line 1175: the entries the sweep of send_blink resolves as timed out and
\* erases
swept(table, time) == {t \in DOMAIN table : table[t].expiry >= time}

\* variant: a tag that is in use may be drawn again
unused_or_not(tags, table) == {t \in tags : t # 0}

\* lines 1190-1193: the values of the generator the loop accepts
unused(tags, table) == {t \in tags : t # 0 /\ t \notin table}

\* variant: the table may grow one entry beyond the limit
busy_above(size) == size > MAX_ACTIVE_PROMISES

\* line 1187: the table is full
busy(size) == size >= MAX_ACTIVE_PROMISES

\* lines 1158-1200: parse; under the unique lock sweep the table, look for the
\* same tx among the entries that stay, check the size, pick an unused random
\* tag and create the entry
send_blink_tags(s, blob, tags) ==
    LET tx_hash == parse_and_validate_tx_from_blob(blob)
        gone == swept(pending_blink_results, now)
        kept == DOMAIN pending_blink_results \ gone
        table == [t \in kept |-> pending_blink_results[t]]
        fut == [p \in Submissions |->
                  IF \E t \in gone : pending_blink_results[t].promise = p
                  THEN set_value(future, p, <<"timeout", "Blink quorum timeout">>).fut[p]
                  ELSE future[p]]
        found == \E t \in kept : table[t].hash = tx_hash
        return(v) == /\ future' = [fut EXCEPT ![s] = v]
                     /\ pending_blink_results' = table
                     /\ sb' = [sb EXCEPT ![s] = DoneCall]
    IN /\ sb[s].pc = "idle"
       /\ s > 1 => sb[s - 1].pc # "idle"
       /\ UNCHANGED <<to_erase, now, blink_net, delivered>>
       /\ UNCHANGED <<otherVars, nodeVars>>
       /\ IF tx_hash = ""
          THEN /\ future' = [future EXCEPT ![s] =
                                <<"rejected", "Could not parse transaction data">>]
               /\ sb' = [sb EXCEPT ![s] = DoneCall]
               /\ UNCHANGED pending_blink_results
          ELSE IF found
          THEN return(<<"rejected", "Transaction was already submitted">>)
          ELSE IF busy(Cardinality(kept))
          THEN return(<<"rejected", "Node is busy, try again later">>)
          ELSE \E blink_tag \in unused(tags, kept) :
               /\ pending_blink_results' =
                     (blink_tag :> blink_result_data(tx_hash, s, now + BLINK_TIMEOUT)) @@ table
               /\ future' = fut
               /\ sb' = [sb EXCEPT ![s] = [pc |-> "send", tx_blob |-> blob, tag |-> blink_tag,
                                             remotes |-> {}]]

send_blink(s, blob) == send_blink_tags(s, blob, Tags)

\* lines 1211-1233: the active validators of the two subquorums that published
\* connection details
candidates(qs, active) ==
    UNION {{validators(qs, qi)[j] : j \in 1 .. Len(validators(qs, qi))} : qi \in SubQ} \cap active

\* lines 1202-1257, after the lock is released: fetch the quorums (throws if
\* they are unusable), pick up to `fanout` random entry points, store their
\* number through the pointer to the entry and send the tagged blink.  If the
\* entry was erased meanwhile the pointer dangles: the store then changes
\* nothing that is still in use or lands in another entry.
send_blink_relay_n(s, fanout) ==
    LET c == sb[s]
        cand == candidates(blink_quorums, sn_active)
        size == Min(fanout, Cardinality(cand))
    IN /\ c.pc = "send"
       /\ UNCHANGED <<future, to_erase, now, delivered>>
       /\ UNCHANGED <<otherVars, nodeVars>>
       /\ IF ~get_blink_quorums_ok(blink_quorums, blink_quorums)
          THEN /\ sb' = [sb EXCEPT ![s] = DoneCall]
               /\ UNCHANGED <<pending_blink_results, blink_net>>
          ELSE \E indices \in {r \in SUBSET cand : Cardinality(r) = size} :
               /\ sb' = [sb EXCEPT ![s] = [pc |-> "done", tx_blob |-> "", tag |-> c.tag,
                                             remotes |-> indices]]
               /\ blink_net' = blink_net \cup
                     {[to |-> r, tag |-> c.tag, t |-> c.tx_blob] : r \in indices}
               /\ IF c.tag \in DOMAIN pending_blink_results
                     /\ pending_blink_results[c.tag].promise = s
                  THEN pending_blink_results' =
                          [pending_blink_results EXCEPT ![c.tag].remote_count = size]
                  ELSE \/ UNCHANGED pending_blink_results
                       \/ \E t \in DOMAIN pending_blink_results :
                             pending_blink_results' =
                                [pending_blink_results EXCEPT ![t].remote_count = size]

send_blink_relay(s) == send_blink_relay_n(s, SendFanout)

\* ---------------------------------------- submitter: the bl_* handlers (I)
\* variant: half of the entry points is enough
majority_half(count_same, remote_count) == count_same >= remote_count \div 2

\* line 1275: more than half (integer division) of the entry points contacted
majority(count_same, remote_count) == count_same > remote_count \div 2

\* lines 1263-1282: under the shared lock look the tag up, count the response
\* and resolve the promise when the count exceeds half of remote_count
common_blink_response(tag, res, msg, nostart, bad, good) ==
    IF tag \notin DOMAIN pending_blink_results
    THEN UNCHANGED <<pending_blink_results, future, to_erase>>
    ELSE LET pbr == pending_blink_results[tag]
             count_same == 1 + (IF nostart THEN pbr.nostart_count
                                ELSE IF bad THEN pbr.bad_count ELSE pbr.good_count)
             r == set_value(future, pbr.promise, <<res, msg>>)
         IN /\ pending_blink_results' =
                  IF nostart THEN [pending_blink_results EXCEPT ![tag].nostart_count = count_same]
                  ELSE IF bad THEN [pending_blink_results EXCEPT ![tag].bad_count = count_same]
                  ELSE [pending_blink_results EXCEPT ![tag].good_count = count_same]
            /\ IF majority(count_same, pbr.remote_count)
               THEN /\ future' = r.fut
                    /\ to_erase' = IF r.ok THEN to_erase (+) SetToBag({tag}) ELSE to_erase
               ELSE UNCHANGED <<future, to_erase>>

\* lines 1283-1286: the handler that set the promise erases the tag
erase(tag) ==
    /\ BagIn(tag, to_erase)
    /\ to_erase' = to_erase (-) SetToBag({tag})
    /\ pending_blink_results' =
          [t \in DOMAIN pending_blink_results \ {tag} |-> pending_blink_results[t]]
    /\ UNCHANGED <<future, sb, now, blink_net, delivered>>
    /\ UNCHANGED <<otherVars, nodeVars>>

handle_blink_not_started(m) ==
    /\ m.cmd = "bl_nostart"
    /\ common_blink_response(m.tag, "rejected", m.e, TRUE, FALSE, FALSE)

handle_blink_failure(m) ==
    /\ m.cmd = "bl_bad"
    /\ common_blink_response(m.tag, "rejected", "Transaction rejected by quorum",
                             FALSE, TRUE, FALSE)

handle_blink_success(m) ==
    /\ m.cmd = "bl_good"
    /\ common_blink_response(m.tag, "accepted", "", FALSE, FALSE, TRUE)

Responses == {"bl_nostart", "bl_bad", "bl_good"}

\* the submitter's clock advances
Tick_to(calls, limit) ==
    /\ now < limit
    /\ \E s \in calls : sb[s].pc = "idle"
    /\ now' = now + 1
    /\ UNCHANGED <<pending_blink_results, future, sb, to_erase, blink_net, delivered>>
    /\ UNCHANGED <<otherVars, nodeVars>>

\* the calls all specifications but SpecTable make
SubmitCalls == 1 .. (MaxSubmits - 1)

Tick == Tick_to(SubmitCalls, MaxTime)

SubmitterInit ==
    /\ pending_blink_results = <<>>
    /\ future = [s \in Submissions |-> Unset]
    /\ sb = [s \in Submissions |-> IdleCall]
    /\ to_erase = EmptyBag
    /\ now = 0
    /\ blink_net = {}
    /\ delivered = [v \in AllValidators |-> EmptyBag]

\* no vote in a pool, no uptime proof seen, an empty ledger at height 0
\* (quorum_cop::init, lines 50-54; BlockchainSQLite(), line 99)
NoCall == [op |-> "", result |-> FALSE]

OtherInit ==
    /\ vote_pool = [n \in Nodes |-> {}]
    /\ m_uptime_proof_seen = <<>>
    /\ db_height = 0
    /\ batch_sn_payments = <<>>
    /\ chain = <<>>
    /\ ret = NoCall

\* --------------------------------------------------------- specifications
\* One service node at a time, its peers and the submitters played by the
\* environment.
Init ==
    /\ NodeInit(QuorumChoices \X ActiveChoices,
                {[n \in Nodes |-> IF n = "n1" THEN MaxMsgs ELSE 0]})
    /\ SubmitterInit
    /\ OtherInit

Next ==
    \E n \in Nodes, w \in Workers :
        \/ RecvBlink(n, w)
        \/ RecvBlinkSign(n, w)
        \/ NodeStep(n, w)

Spec == Init /\ [][Next]_vars

\* The submitting node; the entry points are played by the environment: an
\* entry point that was sent a tagged blink answers it with responses that
\* carry its tag.
SubmitBlobs == {"tx", "tx2", "junk"}

\* usable quorums and quorums get_blink_quorums rejects; directories with 3, 2,
\* 1 and 0 reachable validators
SubmitQuorums == {q \in QuorumChoices : q[1] = <<"n1", "n2", "v3">>}
SubmitActive == {{"n1", "n2", "v3"}, {"n1", "n2"}, {"n1"}, {}}

EntryReply(b, m) ==
    /\ b \in blink_net
    /\ m.tag = b.tag
    /\ blink_net' = blink_net \ {b}
    /\ delivered' = [delivered EXCEPT ![b.to] = @ (+) SetToBag({m})]
    /\ UNCHANGED <<sb, now>>
    /\ UNCHANGED <<otherVars, nodeVars>>

ReplyInputs(b) ==
    {Msg(Client, "bl_nostart", FALSE, b.tag, "e1"),
     Msg(Client, "bl_bad", TRUE, b.tag, ""),
     Msg(Client, "bl_good", TRUE, b.tag, "")}

RecvNotStarted == \E b \in blink_net : \E m \in ReplyInputs(b) :
    EntryReply(b, m) /\ handle_blink_not_started(m)

RecvFailure == \E b \in blink_net : \E m \in ReplyInputs(b) :
    EntryReply(b, m) /\ handle_blink_failure(m)

RecvSuccess == \E b \in blink_net : \E m \in ReplyInputs(b) :
    EntryReply(b, m) /\ handle_blink_success(m)

SubmitInit ==
    /\ NodeInit(SubmitQuorums \X SubmitActive, {[n \in Nodes |-> 0]})
    /\ SubmitterInit
    /\ OtherInit

SubmitNext ==
    \/ \E s \in SubmitCalls, blob \in SubmitBlobs : send_blink(s, blob)
    \/ \E s \in SubmitCalls : send_blink_relay(s)
    \/ RecvNotStarted
    \/ RecvFailure
    \/ RecvSuccess
    \/ \E tag \in Tags : erase(tag)
    \/ Tick

SpecSubmit == SubmitInit /\ [][SubmitNext]_vars

\* The table of pending submissions as it fills: every send_blink call of the
\* submitting node, each for another tx, while the clock runs past the lifetime
\* of two entries; one entry point is reachable and answers bl_good.
TableBlobs == {"tx", "tx2", "tx3"}

TableTime == MaxTime + MaxTime

\* the values of the generator: 0, and one value more than the table can
\* hold, so that the generator never runs out
TableTags == 0 .. (MAX_ACTIVE_PROMISES + 1)

TableInit ==
    /\ NodeInit({<< << <<"n1", "n2", "v3">>, <<"n2", "v3", "n1">> >>, {"n1"} >>},
                {[n \in Nodes |-> 0]})
    /\ SubmitterInit
    /\ OtherInit

TableNext ==
    \/ \E s \in Submissions, blob \in TableBlobs : send_blink_tags(s, blob, TableTags)
    \/ \E s \in Submissions : send_blink_relay(s)
    \/ RecvSuccess
    \/ \E tag \in TableTags : erase(tag)
    \/ Tick_to(Submissions, TableTime)

SpecTable == TableInit /\ [][TableNext]_vars

\* One submission of the blink tx from the submitting node to the service
\* nodes: the tagged blinks send_blink sent are handled by the nodes, what a
\* node relayed to another node is handled by that node, the verdicts the nodes
\* sent are handled by the submitter.  Validator "v3" (played by the
\* environment) sends its signatures to node "n1".  Node "n1" runs both
\* workers, node "n2" one.
SentTo(n) == BagToSet(sent[n])

\* message m that node src sent arrives at its destination
Deliver(src, m) ==
    /\ CopiesIn(m, delivered[src]) < CopiesIn(m, sent[src])
    /\ delivered' = [delivered EXCEPT ![src] = @ (+) SetToBag({m})]

RecvSubmitted(n, w) ==
    /\ FreeWorker(n, w)
    /\ \E b \in blink_net :
          /\ b.to = n
          /\ blink_net' = blink_net \ {b}
          /\ handle_blink(n, w, [tag |-> b.tag, from |-> Client, parts |-> 1, h |-> local_height,
                                 q |-> blink_quorums, t |-> b.t,
                                 hash |-> parse_and_validate_tx_from_blob(b.t)])
    /\ UNCHANGED <<pending_blink_results, future, sb, to_erase, now, delivered>>

RecvRelayedBlink(n, w) ==
    /\ FreeWorker(n, w)
    /\ \E src \in Nodes : \E m \in SentTo(src) :
          /\ m.to = n
          /\ m.cmd = "blink"
          /\ Deliver(src, m)
          /\ handle_blink(n, w, [tag |-> m.tag, from |-> src, parts |-> 1, h |-> local_height,
                                 q |-> blink_quorums, t |-> "tx", hash |-> TxHash])
    /\ UNCHANGED <<pending_blink_results, future, sb, to_erase, now, blink_net>>

RecvRelayedSign(n, w) ==
    /\ FreeWorker(n, w)
    /\ \E src \in Nodes : \E m \in SentTo(src) :
          /\ m.to = n
          /\ m.cmd = "blink_sign"
          /\ Deliver(src, m)
          /\ handle_blink_signature(n, w, [from |-> src, h |-> local_height,
                                           q |-> blink_quorums, sigs |-> m.sigs])
    /\ UNCHANGED <<pending_blink_results, future, sb, to_erase, now, blink_net>>

RecvQuorumSign(n, w) ==
    /\ FreeWorker(n, w)
    /\ n = "n1"
    /\ \E a \in BOOLEAN :
          handle_blink_signature(n, w, [from |-> "v3", h |-> local_height,
                                        q |-> blink_quorums,
                                        sigs |-> signed_by(blink_quorums, "v3", a)])
    /\ UNCHANGED subVars

\* a verdict or refusal a node sent to the submitter arrives
Reply(n, m) ==
    /\ m.to = Client
    /\ Deliver(n, m)
    /\ UNCHANGED <<sb, now, blink_net>>
    /\ UNCHANGED <<otherVars, nodeVars>>

DeliverNotStarted == \E n \in Nodes : \E m \in SentTo(n) :
    Reply(n, m) /\ handle_blink_not_started(m)

DeliverFailure == \E n \in Nodes : \E m \in SentTo(n) :
    Reply(n, m) /\ handle_blink_failure(m)

DeliverSuccess == \E n \in Nodes : \E m \in SentTo(n) :
    Reply(n, m) /\ handle_blink_success(m)

E2EWorkers(n) == IF n = "n1" THEN Workers ELSE {"w1"}

\* all validators reachable and the two nodes peers of each other; or the
\* only strong peer of either node, "v3", unreachable
E2ETopologies ==
    { << << <<"n1", "n2", "v3">>, <<"n2", "n1", "v4">> >>, AllValidators >>,
      << << <<"n1", "v3">>, <<"v4", "n2", "v3">> >>, {"n1", "n2"} >> }

E2EInit ==
    /\ NodeInit(E2ETopologies, {[n \in Nodes |-> IF n = "n1" THEN MaxMsgs
                                                ELSE IF n = "n2" THEN MaxMsgs - 1 ELSE 0]})
    /\ SubmitterInit
    /\ OtherInit

E2ENext ==
    \/ send_blink(1, "tx")
    \/ send_blink_relay(1)
    \/ DeliverNotStarted
    \/ DeliverFailure
    \/ DeliverSuccess
    \/ \E tag \in Tags : erase(tag)
    \/ \E n \in Nodes : \E w \in E2EWorkers(n) :
          \/ RecvSubmitted(n, w)
          \/ RecvRelayedBlink(n, w)
          \/ RecvRelayedSign(n, w)
          \/ RecvQuorumSign(n, w)
          \/ NodeStep(n, w)

SpecE2E == E2EInit /\ [][E2ENext]_vars


\* ---------------------------------------------------------- the happy path
\* One submission of the blink tx; every member of Q and Q' runs its handlers,
\* is active and reachable, and its mempool approves the tx; a message that
\* was sent is handled by its receiver.  No clock: nothing times out.  Q and Q'
\* have the same size (two, so that four nodes make two disjoint subquorums);
\* they are made of the same validators, or share none.
LiveTopologies ==
    { << << <<"n1", "n2">>, <<"n2", "n1">> >>, AllValidators >>,
      << << <<"n1", "n2">>, <<"v3", "v4">> >>, AllValidators >> }

\* more messages than a node is sent in these behaviours
LiveBudget == MaxMsgs + MaxMsgs

LiveWorkers == {"w1"}

\* entry points the submission is sent to (line 1228), not scaled here: every
\* member of the two subquorums is contacted by the submitter
LiveFanout == 4

LiveInit ==
    /\ NodeInit(LiveTopologies, {[n \in Nodes |-> LiveBudget]})
    /\ SubmitterInit
    /\ OtherInit

\* No member holds the tx without a reply tag here (each first sees it in the
\* tagged submission), so lines 853-859 are not executed.
LiveStep(n, w) ==
    \/ hb_install(n, w)
    \/ hb_relay_mempool(n, w, {TRUE})
    \/ hs_delay(n, w)
    \/ pbs_check(n, w)
    \/ pbs_insert(n, w)

LiveNext ==
    \/ send_blink(1, "tx")
    \/ send_blink_relay_n(1, LiveFanout)
    \/ DeliverSuccess
    \/ \E tag \in Tags : erase(tag)
    \/ \E n \in Nodes : \E w \in LiveWorkers :
          \/ RecvSubmitted(n, w)
          \/ RecvRelayedBlink(n, w)
          \/ RecvRelayedSign(n, w)
          \/ LiveStep(n, w)

\* the transport delivers and the workers run: a step that can be taken is
\* eventually taken
SpecLive == LiveInit /\ [][LiveNext]_vars /\ WF_vars(LiveNext)

\* ---------------------------------------------------------- vote relay (E)
\* The enumerations of a vote in the order of their enumerators; the position
\* of an enumerator less one is its integer value, the length is _count.
quorum_type == <<"obligations", "checkpointing", "blink">>
quorum_group == <<"invalid", "validator", "worker">>
new_state == <<"deregister", "decommission", "recommission", "ip_change_penalty">>

\* static_cast of an enumerator to its underlying integer
underlying(E, e) == (CHOOSE k \in 1 .. Len(E) : E[k] = e) - 1

VoteVersions == {0, 1}
VoteHeights == {0, 10}
VoteIndices == {0, 1}
VoteSignatures == {"sigA"}
VoteHashes == {"bhA", "bhB"}

Range(f) == {f[k] : k \in DOMAIN f}

\* quorum_vote_t: the common fields and the member of the union that the type
\* selects
Votes ==
    [version : VoteVersions, type : {"checkpointing"}, block_height : VoteHeights,
     group : Range(quorum_group), index_in_group : VoteIndices,
     signature : VoteSignatures, checkpoint : [block_hash : VoteHashes]]
    \cup
    [version : VoteVersions, type : Range(quorum_type) \ {"checkpointing"},
     block_height : VoteHeights, group : Range(quorum_group),
     index_in_group : VoteIndices, signature : VoteSignatures,
     state_change : [worker_index : VoteIndices, state : Range(new_state)]]

\* lines 431-447
serialize_vote(vote) ==
    LET result == [v |-> vote.version, t |-> underlying(quorum_type, vote.type),
                   h |-> vote.block_height, g |-> underlying(quorum_group, vote.group),
                   i |-> vote.index_in_group, s |-> vote.signature]
    IN IF vote.type = "checkpointing"
       THEN result @@ [bh |-> vote.checkpoint.block_hash]
       ELSE result @@ [wi |-> vote.state_change.worker_index,
                       sc |-> underlying(new_state, vote.state_change.state)]

\* lines 203-209: the enumerator of an integer below _count
get_enum_ok(E, x) == x >= 0 /\ x < Len(E)

get_enum(E, x) == E[x + 1]

\* lines 449-471: the results the call can have.  `quorum_vote_t vote;` leaves
\* the union uninitialised and line 467 checks the field "sc" without storing
\* it, so state_change.state keeps an indeterminate value.
deserialize_vote(d) ==
    IF ~get_enum_ok(quorum_type, d.t) \/ ~get_enum_ok(quorum_group, d.g)
       \/ get_enum(quorum_group, d.g) = "invalid"
       \/ (get_enum(quorum_type, d.t) # "checkpointing" /\ ~get_enum_ok(new_state, d.sc))
    THEN {[raised |-> "std::invalid_argument"]}
    ELSE LET vote == [version |-> d.v, type |-> get_enum(quorum_type, d.t),
                      block_height |-> d.h, group |-> get_enum(quorum_group, d.g),
                      index_in_group |-> d.i, signature |-> d.s]
         IN IF vote.type = "checkpointing"
            THEN {[raised |-> "", vote |-> vote @@ [checkpoint |-> [block_hash |-> d.bh]]]}
            ELSE {[raised |-> "",
                   vote |-> vote @@ [state_change |->
                                        [worker_index |-> d.wi, state |-> indeterminate]]]
                    : indeterminate \in Range(new_state)}

\* One vote at a time: worker w1 of node n1 holds a vote, serializes it and
\* deserializes the result.
VoteNode == "n1"
VoteWorker == "w1"

VoteInit ==
    /\ \E vote \in Votes :
          thr = [n \in Nodes |-> [w \in Workers |->
                    IF n = VoteNode /\ w = VoteWorker
                    THEN [pc |-> "vote", vote |-> vote, raised |-> ""]
                    ELSE IdleThread]]
    /\ blink_quorums = << <<"n1", "n2">>, <<"n2", "n1">> >>
    /\ sn_active = AllValidators
    /\ local_height \in LocalHeights
    /\ blinks = [n \in Nodes |-> EmptyEntry]
    /\ signatures_ = [n \in Nodes |-> [qi \in SubQ |-> [p \in Positions |-> EmptySlot]]]
    /\ msgs = [n \in Nodes |-> 0]
    /\ sent = [n \in Nodes |-> EmptyBag]
    /\ SubmitterInit
    /\ OtherInit

vote_serialize ==
    LET t == thr[VoteNode][VoteWorker]
    IN /\ t.pc = "vote"
       /\ SetThread(VoteNode, VoteWorker,
                    [pc |-> "data", vote |-> t.vote, data |-> serialize_vote(t.vote),
                     raised |-> ""])
       /\ UNCHANGED <<otherVars, blink_quorums, sn_active, local_height, blinks, signatures_, msgs, sent>>
       /\ UNCHANGED subVars

vote_deserialize ==
    LET t == thr[VoteNode][VoteWorker]
    IN /\ t.pc = "data"
       /\ \E r \in deserialize_vote(t.data) :
             SetThread(VoteNode, VoteWorker,
                       [pc |-> "result", vote |-> t.vote, data |-> t.data,
                        result |-> r, raised |-> ""])
       /\ UNCHANGED <<otherVars, blink_quorums, sn_active, local_height, blinks, signatures_, msgs, sent>>
       /\ UNCHANGED subVars

VoteNext == vote_serialize \/ vote_deserialize

SpecVote == VoteInit /\ [][VoteNext]_vars

\* ------------------------------------- inbound messages as they arrive (H)
\* One service node and the messages the transport hands to handle_blink and
\* handle_blink_signature, well-formed or not, at several blockchain heights.

\* a value-initialised pending_signature (std::list::resize, line 1001)
DefaultSig == [approval |-> FALSE, qi |-> 0, position |-> 0, sig |-> NoSig]

\* the keys of the four lists and the tuple element each one fills
ListKeys == {"i", "p", "r", "s"}

FieldOf(key) ==
    IF key = "i" THEN "qi" ELSE IF key = "p" THEN "position"
    ELSE IF key = "r" THEN "approval" ELSE "sig"

\* lines 997-1009 with the copy_value lambdas of lines 1070-1097: size the
\* list of signatures by the first list that arrives, require every later
\* list to have that size, and copy (and validate) the values of the list
copy_signature_values(signatures, results, key) ==
    LET thrown == [raised |-> "std::invalid_argument", signatures |-> signatures]
        base == IF signatures = <<>>
                THEN [k \in 1 .. Len(results) |-> DefaultSig]
                ELSE signatures
        invalid(v) ==
            \/ key = "i" /\ v >= NUM_BLINK_QUORUMS
            \/ key = "p" /\ (v < 0 \/ v >= BLINK_SUBQUORUM_SIZE)
            \/ key = "s" /\ v = NoSig
    IN IF signatures # <<>> /\ results = <<>> THEN thrown
       ELSE IF signatures # <<>> /\ Len(signatures) # Len(results) THEN thrown
       ELSE IF \E k \in 1 .. Len(results) : invalid(results[k]) THEN thrown
       ELSE [raised |-> "",
             signatures |-> [k \in 1 .. Len(base) |->
                               [base[k] EXCEPT ![FieldOf(key)] = results[k]]]]

\* the orders in which the dictionary can yield the four lists
ListOrders == Orders(ListKeys)

\* lines 1048-1103: the lists are taken in the order the dictionary yields them
RECURSIVE parse_lists(_, _, _)
parse_lists(m, order, signatures) ==
    IF order = <<>> THEN [raised |-> "", signatures |-> signatures]
    ELSE LET r == copy_signature_values(signatures, m[Head(order)], Head(order))
         IN IF r.raised # "" THEN r
            ELSE parse_lists(m, Tail(order), r.signatures)

\* lines 1033-1106: what handle_blink_signature does with the message before
\* it looks at the quorums.  m.parts is the number of data parts, m.key an
\* unrecognised key of the dictionary ("" if there is none), m.hash the tx hash
\* (TxHash or "short", not 32 bytes), m.i, m.p, m.r, m.s the four lists.
blink_sign(n, w, m, order) ==
    LET parsed == parse_lists(m, order, <<>>)
        throw(what) ==
            /\ thr[n][w].pc = "idle"
            /\ msgs[n] > 0
            /\ msgs' = [msgs EXCEPT ![n] = @ - 1]
            /\ Raise(n, w, what)
            /\ UNCHANGED <<otherVars, blink_quorums, sn_active, local_height, blinks, signatures_, sent>>
    IN IF m.parts # 1 THEN throw("std::runtime_error")
       ELSE IF m.key # "" \/ m.hash = "short" \/ parsed.raised # ""
       THEN throw("std::invalid_argument")
       ELSE handle_blink_signature(n, w, [from |-> m.from, h |-> m.h, q |-> m.q,
                                          sigs |-> parsed.signatures])

\* the four lists of a sequence of signatures
ListsOf(sigs) ==
    [i |-> [k \in 1 .. Len(sigs) |-> sigs[k].qi],
     p |-> [k \in 1 .. Len(sigs) |-> sigs[k].position],
     r |-> [k \in 1 .. Len(sigs) |-> sigs[k].approval],
     s |-> [k \in 1 .. Len(sigs) |-> sigs[k].sig]]

RawSign(from, height, qs, lists) ==
    [from |-> from, parts |-> 1, key |-> "", h |-> height, hash |-> TxHash, q |-> qs,
     i |-> lists.i, p |-> lists.p, r |-> lists.r, s |-> lists.s]

\* blink_sign messages with the approvals of validator "v3": well-formed; all
\* four lists empty; one list empty; one list longer; a subquorum index or a
\* position out of range; a null signature; another number of parts; an
\* unrecognised key; a hash of another length; no height.  And a well-formed
\* message with signatures for a slot of "v4" that must not be stored.
RawSigns(qs, height) ==
    LET good == ListsOf(signed_by(qs, "v3", TRUE))
        base == RawSign("v3", height, qs, good)
        none == ListsOf(<<>>)
    IN {base, RawSign("v3", height, qs, none),
        RawSign("v3", height, qs, ListsOf(bad_signatures(qs, "v4")))}
       \cup {[base EXCEPT ![k] = <<>>] : k \in ListKeys}
       \cup {[base EXCEPT !.s = @ \o @],
             [base EXCEPT !.i = [k \in DOMAIN @ |-> NUM_BLINK_QUORUMS]],
             [base EXCEPT !.p = [k \in DOMAIN @ |-> BLINK_SUBQUORUM_SIZE]],
             [base EXCEPT !.s = [k \in DOMAIN @ |-> NoSig]],
             [base EXCEPT !.parts = 2],
             [base EXCEPT !.key = "x"],
             [base EXCEPT !.hash = "short"],
             [base EXCEPT !.h = 0]}

\* blink messages for the blink tx at the height of the node, from the
\* submitter (tag 1) or a quorum peer (no tag): well-formed, or with one thing
\* wrong; and blink messages of other heights.  The cache of the model holds
\* the entry of (local height, TxHash) only, so the messages of other heights
\* are those that do not get as far as the cache: they carry no tx.
RawHeights(height) ==
    {h \in {height - 3, height - 2, height - 1, height + 1, height + 2, height + 3} :
        h >= 0 /\ h < HeightModulus}

RawBlinks(qs, height) ==
    UNION {LET base == [tag |-> o[1], from |-> o[2], parts |-> 1, h |-> height, q |-> qs,
                        t |-> "tx", hash |-> TxHash]
           IN {base,
               [base EXCEPT !.t = ""],
               [base EXCEPT !.hash = "short"],
               [base EXCEPT !.q = <<>>],
               [base EXCEPT !.t = "junk"],
               [base EXCEPT !.hash = "H2"],
               [base EXCEPT !.parts = 2],
               [base EXCEPT !.h = -1]}
              \cup {[base EXCEPT !.h = h, !.t = ""] : h \in RawHeights(height)}
          : o \in {<<0, "v3">>, <<1, Client>>}}

RecvRawBlink(n, w) ==
    /\ FreeWorker(n, w)
    /\ \E m \in RawBlinks(blink_quorums, local_height) : handle_blink(n, w, m)
    /\ UNCHANGED subVars

RecvRawSign(n, w) ==
    /\ FreeWorker(n, w)
    /\ \E m \in RawSigns(blink_quorums, local_height) : \E order \in ListOrders :
          blink_sign(n, w, m, order)
    /\ UNCHANGED subVars

\* usable quorums with every node reachable; the only strong peer of the node
\* unreachable; a subquorum that is too small; one that is too large; quorums
\* the node is not a member of
InboundTopologies ==
    { << << <<"n1", "n2", "v3">>, <<"n2", "n1", "v4">> >>, AllValidators >>,
      << << <<"n1", "v3">>, <<"v4", "n2", "v3">> >>, {"n1", "n2"} >>,
      << << <<"n1", "n2", "v3">>, <<"v4">> >>, AllValidators >>,
      << << <<"n1", "n2", "v3", "v4">>, <<"n2", "n1", "v4">> >>, AllValidators >>,
      << << <<"n2", "v3">>, <<"v4", "v3">> >>, AllValidators >> }

\* the blockchain heights of the node: the first two, and a later one
InboundHeights == {0, 1, 10}

InboundInit ==
    /\ NodeInitAt(InboundTopologies,
                  {[n \in Nodes |-> IF n = "n1" THEN MaxMsgs - 1 ELSE 0]}, InboundHeights)
    /\ SubmitterInit
    /\ OtherInit

InboundNext ==
    \E n \in Nodes, w \in Workers :
        \/ RecvRawBlink(n, w)
        \/ RecvRawSign(n, w)
        \/ NodeStep(n, w)

SpecInbound == InboundInit /\ [][InboundNext]_vars

\* ------------------------------------------------- the cache as blocks arrive
\* The cache entry of the model is the entry of (BlinkHeight, TxHash).  The
\* chain grows while blink and blink_sign messages for that height arrive.
BlinkHeight == CHOOSE h \in LocalHeights : TRUE

\* a block is added to the chain (outside quorumnet.cpp): the value
\* get_current_blockchain_height returns grows by one
new_block ==
    /\ local_height < BlinkHeight + MaxTime
    /\ local_height' = local_height + 1
    /\ UNCHANGED <<otherVars, blink_quorums, sn_active, blinks, signatures_, thr, msgs, sent>>
    /\ UNCHANGED subVars

RecvBlinkAt(n, w) ==
    /\ FreeWorker(n, w)
    /\ \E m \in RawBlinks(blink_quorums, BlinkHeight) : handle_blink(n, w, m)
    /\ UNCHANGED subVars

RecvSignAt(n, w) ==
    /\ FreeWorker(n, w)
    /\ \E m \in RawSigns(blink_quorums, BlinkHeight) : \E order \in ListOrders :
          blink_sign(n, w, m, order)
    /\ UNCHANGED subVars

CacheInit ==
    /\ NodeInit({<< << <<"n1", "n2", "v3">>, <<"n2", "n1", "v4">> >>, AllValidators >>},
                {[n \in Nodes |-> IF n = "n1" THEN MaxMsgs ELSE 0]})
    /\ SubmitterInit
    /\ OtherInit

CacheNext ==
    \/ new_block
    \/ \E n \in Nodes, w \in Workers :
          \/ RecvBlinkAt(n, w)
          \/ RecvSignAt(n, w)
          \/ NodeStep(n, w)

SpecCache == CacheInit /\ [][CacheNext]_vars

\* ------------------------------------------------------------ vote relay (E)
\* service_node_list::get_quorum(type, height): no quorum (the empty set) or
\* one quorum, here its validators.  The quorums the list holds: none for
\* obligations at height 0; a checkpointing quorum below the minimum size at
\* height 0; quorums without "n1" and without "v4".
get_quorum(type, height) ==
    IF type = "obligations"
    THEN (IF height = 0 THEN {} ELSE {<<"n1", "n2", "v3">>})
    ELSE IF type = "checkpointing"
    THEN (IF height = 0 THEN {<<"n1", "n2">>} ELSE {<<"n2", "v3", "v4">>})
    ELSE {<<"v4", "n1">>}

\* service_nodes::min_votes_for_quorum_type, scaled down
min_votes_for_quorum_type(type) == IF type = "checkpointing" THEN 3 ELSE 2

\* lines 233-240: peer_info over one quorum, the range &quorum .. &quorum + 1.
\* The peer operators walk NUM_BLINK_QUORUMS quorums; the second one is empty
\* here and adds no position, no peer and no edge.
single(quorum) == <<quorum, <<>>>>

\* variant: the first vote that is not relayed ends the loop
RECURSIVE relay_votes_stop(_, _, _)
relay_votes_stop(me, active, votes) ==
    IF votes = <<>> THEN EmptyBag
    ELSE LET vote == Head(votes)
             quorum == get_quorum(vote.type, vote.block_height)
             quorum_voters == CHOOSE q \in quorum : TRUE
         IN IF quorum = {} THEN EmptyBag
            ELSE IF Len(quorum_voters) < min_votes_for_quorum_type(vote.type) THEN EmptyBag
            ELSE IF my_position_count(single(quorum_voters), me) = 0 THEN EmptyBag
            ELSE relay_to_peers(single(quorum_voters), me, active, {}, "vote",
                                <<serialize_vote(vote)>>)
                 (+) relay_votes_stop(me, active, Tail(votes))

\* lines 486-510: the messages the loop over the votes sends; the serialized
\* vote is the one data part of the message
RECURSIVE relay_votes_to(_, _, _)
relay_votes_to(me, active, votes) ==
    IF votes = <<>> THEN EmptyBag
    ELSE LET vote == Head(votes)
             quorum == get_quorum(vote.type, vote.block_height)
             quorum_voters == CHOOSE q \in quorum : TRUE
             rest == relay_votes_to(me, active, Tail(votes))
         IN IF quorum = {} THEN rest
            ELSE IF Len(quorum_voters) < min_votes_for_quorum_type(vote.type) THEN rest
            ELSE IF my_position_count(single(quorum_voters), me) = 0 THEN rest
            ELSE relay_to_peers(single(quorum_voters), me, active, {}, "vote",
                                <<serialize_vote(vote)>>)
                 (+) rest

\* a worker that left handle_vote or relay_votes; vvc is what the vote service
\* answered in the call, if it was asked
NoVvc == [m_verification_failed |-> FALSE, m_added_to_pool |-> FALSE, asked |-> FALSE]

VoteThread(pc, votes, vvc) == [pc |-> pc, votes |-> votes, vvc |-> vvc, raised |-> ""]

\* lines 473-512: relay_votes
relay_votes(n, w) ==
    LET t == thr[n][w]
    IN /\ t.pc = "relay_votes"
       /\ Send(n, relay_votes_to(n, sn_active, t.votes))
       /\ SetThread(n, w, VoteThread("idle", t.votes, t.vvc))
       /\ UNCHANGED <<otherVars, blink_quorums, sn_active, local_height, blinks, signatures_, msgs>>
       /\ UNCHANGED subVars

\* core.add_service_node_vote(vote, vvc): what the vote service can answer.
\* It reports added_to_pool for a vote once.
add_service_node_vote(pool, vote) ==
    {[m_verification_failed |-> TRUE, m_added_to_pool |-> FALSE, asked |-> TRUE],
     [m_verification_failed |-> FALSE, m_added_to_pool |-> FALSE, asked |-> TRUE]}
    \cup (IF vote \in pool THEN {}
          ELSE {[m_verification_failed |-> FALSE, m_added_to_pool |-> TRUE, asked |-> TRUE]})

\* variant: the vote is relayed whether or not it was added to the pool
relay_wanted_always(vvc) == TRUE

\* line 538
relay_wanted(vvc) == vvc.m_added_to_pool

\* lines 514-546: handle_vote; m.parts is the number of data parts, m.data the
\* dict of the first part
handle_vote(n, w, m) ==
    /\ thr[n][w].pc = "idle"
    /\ msgs[n] > 0
    /\ msgs' = [msgs EXCEPT ![n] = @ - 1]
    /\ UNCHANGED <<blink_quorums, sn_active, local_height, blinks, signatures_, sent>>
    /\ UNCHANGED <<m_uptime_proof_seen, db_height, batch_sn_payments, chain, ret>>
    /\ IF m.parts # 1
       THEN /\ SetThread(n, w, VoteThread("idle", <<>>, NoVvc))
            /\ UNCHANGED vote_pool
       ELSE \E r \in deserialize_vote(m.data) :
            IF r.raised # ""
            THEN \* caught at line 541
                 /\ SetThread(n, w, VoteThread("idle", <<>>, NoVvc))
                 /\ UNCHANGED vote_pool
            ELSE IF r.vote.block_height > local_height
            THEN /\ SetThread(n, w, VoteThread("idle", <<r.vote>>, NoVvc))
                 /\ UNCHANGED vote_pool
            ELSE \E vvc \in add_service_node_vote(vote_pool[n], r.vote) :
                 /\ vote_pool' = IF vvc.m_added_to_pool
                                 THEN [vote_pool EXCEPT ![n] = @ \cup {r.vote}]
                                 ELSE vote_pool
                 /\ SetThread(n, w,
                       IF vvc.m_verification_failed
                       THEN VoteThread("idle", <<r.vote>>, vvc)
                       ELSE IF relay_wanted(vvc)
                       THEN VoteThread("relay_votes", <<r.vote>>, vvc)
                       ELSE VoteThread("idle", <<r.vote>>, vvc))

\* Votes of local origin: the core hands relay_votes a batch of votes, of every
\* type and of heights with and without a usable quorum; any of the four
\* nodes, with "v3" in the directory or not.
RelayVotes ==
    {v \in Votes :
        /\ v.version = 0 /\ v.group = "validator" /\ v.index_in_group = 0
        /\ v.type = "checkpointing" => v.checkpoint.block_hash = "bhA"
        /\ v.type # "checkpointing"
              => v.state_change = [worker_index |-> 0, state |-> "deregister"]}

RelayBatches == UNION {[1 .. k -> RelayVotes] : k \in 0 .. MaxBatch}

RelayWorker == "w1"

RelayInit ==
    /\ NodeInit({<< << <<"n1", "n2">>, <<"n2", "n1">> >>, active >>
                    : active \in {AllValidators, AllValidators \ {"v3"}}},
                {[n \in Nodes |-> IF n = k THEN 1 ELSE 0] : k \in Nodes})
    /\ SubmitterInit
    /\ OtherInit

\* the core calls the relay_votes callback (registered at line 1362) with a batch
core_relay_votes(n, w) ==
    /\ FreeWorker(n, w)
    /\ msgs' = [msgs EXCEPT ![n] = @ - 1]
    /\ \E votes \in RelayBatches : SetThread(n, w, VoteThread("relay_votes", votes, NoVvc))
    /\ UNCHANGED <<otherVars, blink_quorums, sn_active, local_height, blinks, signatures_, sent>>
    /\ UNCHANGED subVars

RelayNext ==
    \E n \in Nodes :
        \/ core_relay_votes(n, RelayWorker)
        \/ relay_votes(n, RelayWorker)

SpecRelay == RelayInit /\ [][RelayNext]_vars

\* Flooding of a vote through its quorum: the checkpointing quorum of height
\* 10 is n2, v3, v4.  One member holds a vote of its own in its pool and is
\* about to relay it; n1, outside the quorum, has sent one vote message of its
\* choice to a member.  The members handle every vote message sent to them.
FloodVote ==
    [version |-> 0, type |-> "checkpointing", block_height |-> 10, group |-> "validator",
     index_in_group |-> 0, signature |-> "sigA", checkpoint |-> [block_hash |-> "bhA"]]

FloodMembers == {"n2", "v3", "v4"}

FloodOutsider == "n1"

FloodWorker == "w1"

\* what the outsider sends: the same vote, a vote of a height above the
\* chain, an unknown quorum type, no part, two parts
FloodInputs ==
    {<<serialize_vote(FloodVote)>>,
     <<serialize_vote([FloodVote EXCEPT !.block_height = 11])>>,
     <<[serialize_vote(FloodVote) EXCEPT !.t = Len(quorum_type)]>>,
     <<>>,
     <<serialize_vote(FloodVote), serialize_vote(FloodVote)>>}

FloodInit ==
    /\ blink_quorums = << <<"n1", "n2">>, <<"n2", "n1">> >>
    /\ sn_active = AllValidators
    /\ local_height \in LocalHeights
    /\ blinks = [n \in Nodes |-> EmptyEntry]
    /\ signatures_ = [n \in Nodes |-> [qi \in SubQ |-> [p \in Positions |-> EmptySlot]]]
    /\ msgs = [n \in Nodes |-> IF n \in FloodMembers THEN MaxMsgs ELSE 0]
    /\ \E k \in FloodMembers :
          /\ thr = [n \in Nodes |-> [w \in Workers |->
                       IF n = k /\ w = FloodWorker
                       THEN VoteThread("relay_votes", <<FloodVote>>,
                                       [m_verification_failed |-> FALSE,
                                        m_added_to_pool |-> TRUE, asked |-> TRUE])
                       ELSE IdleThread]]
          /\ vote_pool = [n \in Nodes |-> IF n = k THEN {FloodVote} ELSE {}]
    /\ \E to \in FloodMembers : \E data \in FloodInputs :
          sent = [n \in Nodes |->
                     IF n = FloodOutsider
                     THEN SetToBag({[to |-> to, cmd |-> "vote", optional |-> FALSE,
                                     tag |-> 0, e |-> "", sigs |-> data]})
                     ELSE EmptyBag]
    /\ SubmitterInit
    /\ m_uptime_proof_seen = <<>>
    /\ db_height = 0
    /\ batch_sn_payments = <<>>
    /\ chain = <<>>
    /\ ret = NoCall

\* a "vote" message reaches node n and a worker runs handle_vote on it
RecvVote(n, w) ==
    \E src \in Nodes : \E m \in SentTo(src) :
        /\ m.cmd = "vote"
        /\ m.to = n
        /\ Deliver(src, m)
        /\ handle_vote(n, w, [from |-> src, parts |-> Len(m.sigs),
                              data |-> IF m.sigs = <<>> THEN <<>> ELSE Head(m.sigs)])
        /\ UNCHANGED <<pending_blink_results, future, sb, to_erase, now, blink_net>>

FloodNext ==
    \E n \in Nodes :
        \/ RecvVote(n, FloodWorker)
        \/ relay_votes(n, FloodWorker)

\* the workers of a node keep taking the messages that wait for it
FloodFairness ==
    \A n \in Nodes :
        /\ WF_vars(RecvVote(n, FloodWorker))
        /\ WF_vars(relay_votes(n, FloodWorker))

SpecFlood == FloodInit /\ [][FloodNext]_vars /\ FloodFairness

\* ------------------------------------------------------ two quorum members
\* Nodes n1 and n2, members of both subquorums, get the blink tx from a quorum
\* peer, sign what their mempool says and relay to each other.  The validators
\* v3 and v4 (played by the environment) send either node their signature of
\* either value; a forger sends a list that fills the slots of the other
\* validators of the first subquorum with rejections signed by its own key.
forged_for(qs, me, approval) ==
    LET RECURSIVE build(_)
        build(p) ==
            IF p >= Len(validators(qs, 0)) THEN <<>>
            ELSE (IF validators(qs, 0)[p + 1] # me
                  THEN <<PendingSig(approval, 0, p, Forger, approval)>> ELSE <<>>)
                 \o build(p + 1)
    IN build(0)

AgreeNodes == {"n1", "n2"}

AgreeWorker == "w1"

AgreeInit ==
    /\ NodeInit({<< << <<"n1", "n2", "v3">>, <<"n2", "n1", "v4">> >>, AllValidators >>},
                {[n \in Nodes |-> IF n \in AgreeNodes THEN MaxMsgs - 1 ELSE 0]})
    /\ SubmitterInit
    /\ OtherInit

\* the blink tx forwarded by the quorum peer v4
RecvForwardedBlink(n, w) ==
    /\ FreeWorker(n, w)
    /\ handle_blink(n, w, [tag |-> 0, from |-> "v4", parts |-> 1, h |-> local_height,
                           q |-> blink_quorums, t |-> "tx", hash |-> TxHash])
    /\ UNCHANGED subVars

\* signatures of v3 or v4, or of the forger, arrive at the node
RecvSignOf(n, w) ==
    /\ FreeWorker(n, w)
    /\ \E sigs \in {signed_by(blink_quorums, v, a) : v \in {"v3", "v4"}, a \in BOOLEAN}
                     \cup {forged_for(blink_quorums, n, FALSE)} :
          handle_blink_signature(n, w, [from |-> "v3", h |-> local_height,
                                        q |-> blink_quorums, sigs |-> sigs])
    /\ UNCHANGED subVars

AgreeNext ==
    \E n \in AgreeNodes :
        \/ RecvForwardedBlink(n, AgreeWorker)
        \/ RecvRelayedBlink(n, AgreeWorker)
        \/ RecvRelayedSign(n, AgreeWorker)
        \/ RecvSignOf(n, AgreeWorker)
        \/ hb_install(n, AgreeWorker)
        \/ hb_relay(n, AgreeWorker)
        \/ hs_delay(n, AgreeWorker)
        \/ pbs_check(n, AgreeWorker)
        \/ pbs_insert(n, AgreeWorker)

SpecAgree == AgreeInit /\ [][AgreeNext]_vars

\* ------------------------------------------------------------ quorum_cop
\* service_node_quorum_cop.cpp: the uptime proofs a node has seen and the
\* deregister votes it casts.  Times are uint64_t seconds (scaled down).
UPTIME_PROOF_BUFFER_IN_SECONDS == 1
UPTIME_PROOF_FREQUENCY_IN_SECONDS == 2
UPTIME_PROOF_MAX_TIME_IN_SECONDS == 3
\* time_t / uint64_t arithmetic wraps at this modulus (2^64 in the code)
TimeModulus == 64
\* time(nullptr) when the node starts
CopEpoch == 4

\* the node running quorum_cop, its uptime quorum and the nodes it tests
CopNode == "n1"
quorum_nodes == <<"n1", "v4">>
nodes_to_test == <<"n2", "v3">>

\* m_core.is_service_node
is_service_node(pubkey) == pubkey \in AllValidators

\* the major version a proof must carry (hard fork >= 11: lines 232-233)
MinVersionMajor == 3

\* make_hash (lines 203-212): the hash of pubkey and timestamp
make_hash(pubkey, timestamp) == <<pubkey, timestamp>>

\* a default-constructed proof_info, as operator[] inserts it
NoProof == [timestamp |-> 0, version_major |-> 0]

\* std::unordered_map::operator[]: the map with the key present
subscript(map, key) == IF key \in DOMAIN map THEN map ELSE (key :> NoProof) @@ map

\* lines 214-247: what handle_uptime_proof returns and the map it leaves
handle_uptime_proof_at(proofs, time, proof) ==
    LET timestamp == proof.timestamp
        pubkey == proof.pubkey
        looked == subscript(proofs, pubkey)
    IN IF timestamp < (time + TimeModulus - UPTIME_PROOF_BUFFER_IN_SECONDS) % TimeModulus
          \/ timestamp > (time + UPTIME_PROOF_BUFFER_IN_SECONDS) % TimeModulus
       THEN [result |-> FALSE, seen |-> proofs]
       ELSE IF ~is_service_node(pubkey)
       THEN [result |-> FALSE, seen |-> proofs]
       ELSE IF proof.snode_version_major < MinVersionMajor
       THEN [result |-> FALSE, seen |-> proofs]
       ELSE IF looked[pubkey].timestamp
                 >= (time + TimeModulus - (UPTIME_PROOF_FREQUENCY_IN_SECONDS \div 2)) % TimeModulus
       THEN [result |-> FALSE, seen |-> looked]
       ELSE IF ~check_signature(make_hash(pubkey, timestamp), pubkey, proof.sig)
       THEN [result |-> FALSE, seen |-> looked]
       ELSE [result |-> TRUE,
             seen |-> [looked EXCEPT ![pubkey] =
                          [timestamp |-> time, version_major |-> proof.snode_version_major]]]

\* the proofs that arrive: of a tested node, of the other tested node, of an
\* unknown key; fresh, too old or too new; signed by the node or by another
\* key; of the current or of an old version
ProofInputs(time) ==
    [pubkey : {"n2", "v3", "x9"},
     timestamp : {time - (UPTIME_PROOF_BUFFER_IN_SECONDS + 1), time,
                  time + UPTIME_PROOF_BUFFER_IN_SECONDS + 1},
     sig : {[signer |-> k, bit |-> <<k, time>>] : k \in {"n2", "v3", "x9"}},
     snode_version_major : {MinVersionMajor - 1, MinVersionMajor}]

CopFrame ==
    /\ UNCHANGED nodeVars
    /\ UNCHANGED <<pending_blink_results, future, sb, to_erase, blink_net, delivered>>
    /\ UNCHANGED <<db_height, batch_sn_payments, chain>>

handle_uptime_proof ==
    \E proof \in ProofInputs(now) :
        LET r == handle_uptime_proof_at(m_uptime_proof_seen, now, proof)
        IN /\ m_uptime_proof_seen' = r.seen
           /\ ret' = [op |-> "handle_uptime_proof", result |-> r.result]
           /\ UNCHANGED <<now, vote_pool>>
           /\ CopFrame

\* lines 127-148: a deregister vote for every tested node without an entry
deregister_votes(proofs, height) ==
    {[block_height |-> height, service_node_index |-> node_index - 1,
      voters_quorum_index |-> (CHOOSE i \in DOMAIN quorum_nodes : quorum_nodes[i] = CopNode) - 1]
        : node_index \in {i \in DOMAIN nodes_to_test : nodes_to_test[i] \notin DOMAIN proofs}}

\* lines 72-150 for the block of the node's height: the core may keep the
\* call from voting (hard fork, keys, start time, heights, no quorum state);
\* otherwise the node, a member of the quorum, votes
process_uptime_quorum ==
    /\ \E votes \in {{}, deregister_votes(m_uptime_proof_seen, local_height)} :
          vote_pool' = [vote_pool EXCEPT ![CopNode] = @ \cup votes]
    /\ ret' = [op |-> "process_uptime_quorum", result |-> TRUE]
    /\ UNCHANGED <<now, m_uptime_proof_seen>>
    /\ CopFrame

\* lines 266-282
prune_uptime_proof ==
    LET prune_from_timestamp == (now + TimeModulus - UPTIME_PROOF_MAX_TIME_IN_SECONDS) % TimeModulus
        to_remove == {pk \in DOMAIN m_uptime_proof_seen :
                         m_uptime_proof_seen[pk].timestamp < prune_from_timestamp}
    IN /\ m_uptime_proof_seen' =
             [pk \in DOMAIN m_uptime_proof_seen \ to_remove |-> m_uptime_proof_seen[pk]]
       /\ ret' = [op |-> "prune_uptime_proof", result |-> TRUE]
       /\ UNCHANGED <<now, vote_pool>>
       /\ CopFrame

\* the clock of the node
cop_tick ==
    /\ now < CopEpoch + MaxTime
    /\ now' = now + 1
    /\ ret' = [op |-> "time", result |-> TRUE]
    /\ UNCHANGED <<vote_pool, m_uptime_proof_seen>>
    /\ CopFrame

CopInit ==
    /\ NodeInit({<< << <<"n1", "n2">>, <<"n2", "n1">> >>, AllValidators >>},
                {[n \in Nodes |-> 0]})
    /\ pending_blink_results = <<>>
    /\ future = [s \in Submissions |-> Unset]
    /\ sb = [s \in Submissions |-> IdleCall]
    /\ to_erase = EmptyBag
    /\ now = CopEpoch
    /\ blink_net = {}
    /\ delivered = [v \in AllValidators |-> EmptyBag]
    /\ OtherInit

CopNext ==
    \/ handle_uptime_proof
    \/ process_uptime_quorum
    \/ prune_uptime_proof
    \/ cop_tick

SpecCop == CopInit /\ [][CopNext]_vars

\* ---------------------------------------------------------------- ledger
\* db_sqlite.cpp: the table batch_sn_payments (address -> amount, height)
\* and the height counter of BlockchainSQLite.  Amounts are uint64_t.
AmountModulus == 256
network_version_19 == 19
BATCHING_INTERVAL == 1
MIN_BATCH_PAYMENT_AMOUNT == 0
LIMIT_BATCH_OUTPUTS == 2
\* blocks the caller adds at most
MaxHeight == 3

Addresses == {"a1", "a2"}

\* "UPDATE batch_sn_payments SET amount = ? WHERE address = ?" with the
\* trigger batch_payments_delete_empty (lines 113-117)
update_payment(db, address, amount) ==
    IF amount = 0
    THEN [a \in DOMAIN db \ {address} |-> db[a]]
    ELSE [db EXCEPT ![address].amount = amount]

\* "INSERT INTO batch_sn_payments (address, amount, height)": no trigger
insert_payment(db, address, amount, height) ==
    (address :> [amount |-> amount, height |-> height]) @@ db

\* lines 176-214: the table after the transaction
RECURSIVE add_sn_payments(_, _, _)
add_sn_payments(db, payments, height) ==
    IF payments = <<>> THEN db
    ELSE LET payment == Head(payments)
             next == IF payment.address \in DOMAIN db
                     THEN update_payment(db, payment.address,
                                         db[payment.address].amount + payment.amount)
                     ELSE insert_payment(db, payment.address, payment.amount, height)
         IN add_sn_payments(next, Tail(payments), height)

\* the loop of lines 224-237: the table, or "false" at an early return
RECURSIVE subtract_loop(_, _)
subtract_loop(db, payments) ==
    IF payments = <<>> THEN [ok |-> TRUE, db |-> db]
    ELSE LET payment == Head(payments)
         IN IF payment.address \notin DOMAIN db
            THEN [ok |-> FALSE, db |-> db]
            ELSE IF payment.amount > db[payment.address].amount
            THEN [ok |-> FALSE, db |-> db]
            ELSE subtract_loop(update_payment(db, payment.address,
                                   db[payment.address].amount - payment.amount),
                               Tail(payments))

\* lines 217-242: an early return leaves the SQLite::Transaction
\* uncommitted, and its destructor rolls the updates back
subtract_sn_payments(db, payments) ==
    LET r == subtract_loop(db, payments)
    IN IF r.ok THEN r ELSE [ok |-> FALSE, db |-> db]

\* lines 244-278: the rows old enough and large enough, ordered by height
\* (rows of one height in any order), at most LIMIT_BATCH_OUTPUTS of them
get_sn_payments(db, height) ==
    LET rows == {a \in DOMAIN db : /\ db[a].height <= height - BATCHING_INTERVAL
                                   /\ db[a].amount > MIN_BATCH_PAYMENT_AMOUNT}
        n == Cardinality(rows)
        orders == {s \in [1 .. n -> rows] :
                      /\ \A i, j \in 1 .. n : i # j => s[i] # s[j]
                      /\ \A i, j \in 1 .. n : i < j => db[s[i]].height <= db[s[j]].height}
    IN {[i \in 1 .. Min(n, LIMIT_BATCH_OUTPUTS) |->
            [address |-> s[i], amount |-> db[s[i]].amount]] : s \in orders}

\* get_deterministic_output_key (line 422)
output_key(address, height, i) == <<address, height, i>>

\* lines 399-434
validate_batch_payment(batch_payment, calculated_payment, height) ==
    /\ Len(batch_payment) = Len(calculated_payment)
    /\ \A i \in 1 .. Len(batch_payment) :
          /\ calculated_payment[i].amount = batch_payment[i].amount
          /\ output_key(calculated_payment[i].address, height, i - 1) = batch_payment[i].key

RECURSIVE total_contributed(_)
total_contributed(contributors) ==
    IF contributors = <<>> THEN 0
    ELSE (Head(contributors).amount + total_contributed(Tail(contributors))) % AmountModulus

\* lines 280-296
calculate_rewards(block, contributors) ==
    LET distribution_amount == block.reward
        total_contributed_to_winner_sn == total_contributed(contributors)
    IN [i \in 1 .. Len(contributors) |->
           [address |-> contributors[i].address,
            amount |-> ((contributors[i].amount \div total_contributed_to_winner_sn)
                           * distribution_amount) % AmountModulus]]

\* the contributors of the winning service node: one or two addresses with
\* their stakes
ContributorLists ==
    {<<[address |-> "a1", amount |-> 2]>>,
     <<[address |-> "a2", amount |-> 1]>>,
     <<[address |-> "a1", amount |-> 1], [address |-> "a2", amount |-> 1]>>,
     <<[address |-> "a1", amount |-> 2], [address |-> "a2", amount |-> 1]>>}

\* the outputs of the miner tx: none, the payments that are due, or an
\* output nobody is owed
MinerOutputs(db, height) ==
    {<<>>, <<[key |-> output_key("a2", height, 0), amount |-> 1]>>}
    \cup {[i \in DOMAIN due |-> [key |-> output_key(due[i].address, height, i - 1),
                                 amount |-> due[i].amount]]
             : due \in get_sn_payments(db, height)}

\* the blocks the caller may add next
BlockInputs(db, height) ==
    [height : {height},
     major_version : {network_version_19 - 1, network_version_19},
     reward : {4},
     vout : MinerOutputs(db, height),
     contributors : ContributorLists]

LedgerFrame ==
    /\ UNCHANGED nodeVars
    /\ UNCHANGED subVars
    /\ UNCHANGED <<vote_pool, m_uptime_proof_seen>>

\* lines 298-348, called with the block that follows the top of the chain
add_block ==
    /\ Len(chain) < MaxHeight
    \* assert(get_block_height(block) == height + 1)
    /\ db_height = Len(chain)
    /\ \E block \in BlockInputs(batch_sn_payments, Len(chain) + 1) :
       \E calculated_rewards \in get_sn_payments(batch_sn_payments, block.height) :
          LET subtracted == subtract_sn_payments(batch_sn_payments, calculated_rewards)
              payments == calculate_rewards(block, block.contributors)
          IN IF block.major_version < network_version_19
             THEN /\ db_height' = db_height + 1
                  /\ ret' = [op |-> "add_block", result |-> TRUE]
                  /\ chain' = Append(chain, block)
                  /\ UNCHANGED batch_sn_payments
             ELSE IF ~validate_batch_payment(block.vout, calculated_rewards, block.height)
             THEN /\ ret' = [op |-> "add_block", result |-> FALSE]
                  /\ UNCHANGED <<db_height, batch_sn_payments, chain>>
             ELSE IF ~subtracted.ok
             THEN /\ ret' = [op |-> "add_block", result |-> FALSE]
                  /\ UNCHANGED <<db_height, batch_sn_payments, chain>>
             ELSE /\ db_height' = db_height + 1
                  /\ batch_sn_payments' = add_sn_payments(subtracted.db, payments, block.height)
                  /\ ret' = [op |-> "add_block", result |-> TRUE]
                  /\ chain' = Append(chain, block)
    /\ LedgerFrame

\* lines 351-392, called with the block on top of the chain; the caller
\* drops the block when the call returns true
pop_block ==
    /\ chain # <<>>
    \* assert(get_block_height(block) == height)
    /\ db_height = Len(chain)
    /\ LET block == chain[Len(chain)]
       IN \E calculated_rewards \in get_sn_payments(batch_sn_payments, block.height) :
          LET added == add_sn_payments(batch_sn_payments, calculated_rewards, block.height)
              payments == calculate_rewards(block, block.contributors)
              subtracted == subtract_sn_payments(added, payments)
          IN IF block.major_version < network_version_19
             THEN /\ db_height' = db_height - 1
                  /\ ret' = [op |-> "pop_block", result |-> TRUE]
                  /\ chain' = SubSeq(chain, 1, Len(chain) - 1)
                  /\ UNCHANGED batch_sn_payments
             ELSE IF ~validate_batch_payment(block.vout, calculated_rewards, block.height)
             THEN /\ ret' = [op |-> "pop_block", result |-> FALSE]
                  /\ UNCHANGED <<db_height, batch_sn_payments, chain>>
             ELSE /\ db_height' = db_height - 1
                  /\ batch_sn_payments' = subtracted.db
                  /\ ret' = [op |-> "pop_block", result |-> subtracted.ok]
                  /\ chain' = IF subtracted.ok THEN SubSeq(chain, 1, Len(chain) - 1) ELSE chain
    /\ LedgerFrame

LedgerInit == CopInit

LedgerNext ==
    \/ add_block
    \/ pop_block

SpecLedger == LedgerInit /\ [][LedgerNext]_vars

\* ----------------------------------------------------------- lock scopes
\* The three mutexes of the process: SNNWrapper::mutex (the blink cache), the
\* mutex of the blink_tx, pending_blink_result_mutex.
CacheLock == "snw.mutex"
BtxLock == "btx"
PendingLock == "pending_blink_result_mutex"

work(next) == [kind |-> "work", lock |-> "", mode |-> "", cmd |-> "", next |-> next]
lock(l, mode, next) == [kind |-> "lock", lock |-> l, mode |-> mode, cmd |-> "", next |-> next]
unlock(l, mode, next) == [kind |-> "unlock", lock |-> l, mode |-> mode, cmd |-> "", next |-> next]
send(cmd, next) == [kind |-> "send", lock |-> "", mode |-> "", cmd |-> cmd, next |-> next]
verify(next) == [kind |-> "verify", lock |-> "", mode |-> "", cmd |-> "", next |-> next]

\* The statements of the handlers in the order of the code, with the scopes
\* of their locks: a lock_guard is a lock statement where it is declared and
\* an unlock statement on every way out of its block.  A statement names the
\* statements that may follow it; "idle" is the return of the handler.
LockProgram(pc) ==
    CASE
      \* handle_blink
         pc = "hb_start" -> work({"idle", "hb_nostart", "hb_lock_shared"})        \* 778-844
      [] pc = "hb_nostart" -> send("bl_nostart", {"idle"})                         \* 815, 822, 831, 867, 882-924
      [] pc = "hb_lock_shared" -> lock(CacheLock, "shared", {"hb_find"})           \* 846
      [] pc = "hb_find" -> work({"hb_unlock_dup", "hb_unlock_new"})                \* 847-859
      [] pc = "hb_unlock_dup" -> unlock(CacheLock, "shared", {"idle"})             \* 861
      [] pc = "hb_unlock_new" -> unlock(CacheLock, "shared", {"hb_checks"})        \* 865
      [] pc = "hb_checks" -> work({"hb_nostart", "hb_lock_unique"})                \* 872-926
      [] pc = "hb_lock_unique" -> lock(CacheLock, "unique", {"hb_install"})        \* 932
      [] pc = "hb_install" -> work({"hb_unlock_seen", "hb_unlock_installed"})      \* 933-945
      [] pc = "hb_unlock_seen" -> unlock(CacheLock, "unique", {"idle"})            \* 936
      [] pc = "hb_unlock_installed" -> unlock(CacheLock, "unique", {"hb_relay"})   \* 946
      [] pc = "hb_relay" -> send("blink", {"hb_sign"})                             \* 958-968
      [] pc = "hb_sign" -> work({"pbs_lock_shared"})                               \* 973-994
      \* process_blink_signatures
      [] pc = "pbs_lock_shared" -> lock(BtxLock, "shared", {"pbs_filter"})         \* 627
      [] pc = "pbs_filter" -> work({"pbs_unlock_shared"})                          \* 628-646
      [] pc = "pbs_unlock_shared" -> unlock(BtxLock, "shared", {"idle", "pbs_verify"})  \* 647-651
      [] pc = "pbs_verify" -> verify({"idle", "pbs_lock_unique"})                  \* 655-675
      [] pc = "pbs_lock_unique" -> lock(BtxLock, "unique", {"pbs_store"})          \* 679
      [] pc = "pbs_store" -> work({"pbs_unlock_unique"})                           \* 681-708
      [] pc = "pbs_unlock_unique" -> unlock(BtxLock, "unique", {"idle", "pbs_relay"})   \* 709-712
      [] pc = "pbs_relay" -> send("blink_sign", {"idle", "pbs_verdict"})           \* 714-746
      [] pc = "pbs_verdict" -> send("bl_good", {"idle"})                           \* 751-759
      \* handle_blink_signature
      [] pc = "hs_start" -> work({"idle", "hs_lock_shared"})                       \* 1037-1108
      [] pc = "hs_lock_shared" -> lock(CacheLock, "shared", {"hs_find"})           \* 1114
      [] pc = "hs_find" -> work({"hs_unlock_shared"})                              \* 1115-1123
      [] pc = "hs_unlock_shared" -> unlock(CacheLock, "shared", {"hs_lock_unique", "pbs_lock_shared"})  \* 1124
      [] pc = "hs_lock_unique" -> lock(CacheLock, "unique", {"hs_delay"})          \* 1130
      [] pc = "hs_delay" -> work({"hs_unlock_unique"})                             \* 1131-1133
      [] pc = "hs_unlock_unique" -> unlock(CacheLock, "unique", {"idle"})          \* 1134
      \* send_blink
      [] pc = "sb_start" -> work({"idle", "sb_lock"})                              \* 1157-1170
      [] pc = "sb_lock" -> lock(PendingLock, "unique", {"sb_sweep"})               \* 1172
      [] pc = "sb_sweep" -> work({"sb_unlock"})                                    \* 1173-1199
      [] pc = "sb_unlock" -> unlock(PendingLock, "unique", {"idle", "sb_quorums"}) \* 1200
      [] pc = "sb_quorums" -> work({"sb_send"})                                    \* 1202-1245
      [] pc = "sb_send" -> send("blink!", {"idle"})                                \* 1247-1257
      \* common_blink_response
      [] pc = "cbr_lock_shared" -> lock(PendingLock, "shared", {"cbr_count"})      \* 1267
      [] pc = "cbr_count" -> work({"cbr_unlock_shared"})                           \* 1268-1280
      [] pc = "cbr_unlock_shared" -> unlock(PendingLock, "shared", {"idle", "cbr_lock_unique"})  \* 1281-1283
      [] pc = "cbr_lock_unique" -> lock(PendingLock, "unique", {"cbr_erase"})      \* 1284
      [] pc = "cbr_erase" -> work({"cbr_unlock_unique"})                           \* 1285
      [] pc = "cbr_unlock_unique" -> unlock(PendingLock, "unique", {"idle"})       \* 1286

\* the first statement of the handlers of "blink", "blink_sign", of send_blink
\* and of the three bl_* handlers
LockHandlers == {"hb_start", "hs_start", "sb_start", "cbr_lock_shared"}

\* the statement a worker is at, the locks it holds and the kind of the
\* statement it executed last
LockThread(pc, held, did) == [pc |-> pc, held |-> held, did |-> did, raised |-> ""]

LockNode == "n1"

LockInit ==
    /\ NodeInit({<< << <<"n1", "n2">>, <<"n2", "n1">> >>, AllValidators >>},
                {[n \in Nodes |-> IF n = LockNode THEN MaxMsgs ELSE 0]})
    /\ SubmitterInit
    /\ OtherInit

\* std::shared_timed_mutex: a unique lock excludes every other holder, a
\* shared lock excludes a unique holder
can_lock(n, w, l, mode) ==
    \A w2 \in Workers \ {w} :
        "held" \in DOMAIN thr[n][w2]
           => \A h \in thr[n][w2].held :
                 h.lock = l => (mode = "shared" /\ h.mode = "shared")

LockFrame ==
    /\ UNCHANGED <<otherVars, blink_quorums, sn_active, local_height, blinks, signatures_>>
    /\ UNCHANGED subVars

\* a worker takes a message (or a call of send_blink) and enters the handler
enter_handler(n, w) ==
    /\ FreeWorker(n, w)
    /\ msgs' = [msgs EXCEPT ![n] = @ - 1]
    /\ \E pc \in LockHandlers : SetThread(n, w, LockThread(pc, {}, ""))
    /\ UNCHANGED sent
    /\ LockFrame

\* the statement at the worker's position is of this kind
AtStatement(n, w, kind) ==
    /\ thr[n][w].pc # "idle"
    /\ "held" \in DOMAIN thr[n][w]
    /\ LockProgram(thr[n][w].pc).kind = kind

Advance(n, w, held) ==
    \E pc \in LockProgram(thr[n][w].pc).next :
        SetThread(n, w, LockThread(pc, held, LockProgram(thr[n][w].pc).kind))

take_lock(n, w) ==
    LET st == LockProgram(thr[n][w].pc)
    IN /\ AtStatement(n, w, "lock")
       /\ can_lock(n, w, st.lock, st.mode)
       /\ Advance(n, w, thr[n][w].held \cup {[lock |-> st.lock, mode |-> st.mode]})
       /\ UNCHANGED <<msgs, sent>>
       /\ LockFrame

\* variant: a lock is kept until the handler returns
released_never(held, st) == held

\* the end of the block that declares the lock
released(held, st) == held \ {[lock |-> st.lock, mode |-> st.mode]}

release_lock(n, w) ==
    LET st == LockProgram(thr[n][w].pc)
    IN /\ AtStatement(n, w, "unlock")
       /\ Advance(n, w, released(thr[n][w].held, st))
       /\ UNCHANGED <<msgs, sent>>
       /\ LockFrame

\* snn.send / m.reply / relay_to_peers
transport_send(n, w) ==
    LET st == LockProgram(thr[n][w].pc)
    IN /\ AtStatement(n, w, "send")
       /\ Send(n, SetToBag({Msg("", st.cmd, FALSE, 0, "")}))
       /\ Advance(n, w, thr[n][w].held)
       /\ UNCHANGED msgs
       /\ LockFrame

\* crypto::check_signature over the pending signatures
check_signatures(n, w) ==
    /\ AtStatement(n, w, "verify")
    /\ Advance(n, w, thr[n][w].held)
    /\ UNCHANGED <<msgs, sent>>
    /\ LockFrame

local_work(n, w) ==
    /\ AtStatement(n, w, "work")
    /\ Advance(n, w, thr[n][w].held)
    /\ UNCHANGED <<msgs, sent>>
    /\ LockFrame

LockNext ==
    \E n \in Nodes : \E w \in Workers :
        \/ enter_handler(n, w)
        \/ take_lock(n, w)
        \/ release_lock(n, w)
        \/ transport_send(n, w)
        \/ check_signatures(n, w)
        \/ local_work(n, w)

SpecLocks == LockInit /\ [][LockNext]_vars

\* ------------------------------------------------------------ peer sets
\* One service node of a blink quorum, any of the four, handles a blink and a
\* blink_sign that other service nodes relayed to it, on one worker.  The
\* subquorums overlap in part, so that there are nodes in Q only, in Q' only
\* and in both, and validator "v4" may be missing from the directory.
PeerTopologies ==
    { << <<"n1", "n2", "v3">>, <<"v4", "n1", "v3">> >>,
      << <<"n1", "n2", "v3">>, <<"v4", "n1">> >>,
      << <<"n1", "n2">>,       <<"v3", "v4">> >> }
        \X {AllValidators, AllValidators \ {"v4"}}

PeerWorker == "w1"

PeerInit ==
    /\ NodeInit(PeerTopologies,
                {[n \in Nodes |-> IF n = k THEN MaxMsgs - 1 ELSE 0] : k \in Nodes})
    /\ SubmitterInit
    /\ OtherInit

\* a blink forwarded by another service node (no tag)
RecvPeerBlink(n) ==
    /\ FreeWorker(n, PeerWorker)
    /\ \E from \in AllValidators \ {n} :
          handle_blink(n, PeerWorker,
                       [tag |-> 0, from |-> from, parts |-> 1, h |-> local_height,
                        q |-> blink_quorums, t |-> "tx", hash |-> TxHash])
    /\ UNCHANGED subVars

\* the signatures of another service node, sent by that node
RecvPeerSign(n) ==
    /\ FreeWorker(n, PeerWorker)
    /\ \E from \in AllValidators \ {n}, a \in BOOLEAN :
          handle_blink_signature(n, PeerWorker,
                                 [from |-> from, h |-> local_height, q |-> blink_quorums,
                                  sigs |-> signed_by(blink_quorums, from, a)])
    /\ UNCHANGED subVars

PeerNext ==
    \E n \in Nodes :
        \/ RecvPeerBlink(n)
        \/ RecvPeerSign(n)
        \/ hb_install(n, PeerWorker)
        \/ hb_relay(n, PeerWorker)
        \/ hs_delay(n, PeerWorker)
        \/ pbs_check(n, PeerWorker)
        \/ pbs_insert(n, PeerWorker)

SpecPeers == PeerInit /\ [][PeerNext]_vars

\* ================================================================ properties
Status(approval) == IF approval THEN "approved" ELSE "rejected"

\* the signatures a worker of node n is about to store
Holding(n, w) ==
    IF thr[n][w].pc = "pbs_insert"
    THEN {thr[n][w].signatures[i] : i \in 1 .. Len(thr[n][w].signatures)}
    ELSE {}

\* C1: a slot that is approved or rejected keeps its state and its signature
\* in every later state, whatever messages arrive and however the handlers
\* interleave.
C1_SlotWrittenOnce ==
    [][\A n \in Nodes, qi \in SubQ, p \in Positions :
          signatures_[n][qi][p].status # "none"
              => signatures_'[n][qi][p] = signatures_[n][qi][p]]_vars

\* a worker passed the checks with a signature of the opposite approval bit
\* for a slot that another worker filled meanwhile
C1_Witness ==
    \E n \in Nodes, w \in Workers : \E s \in Holding(n, w) :
        /\ signatures_[n][s.qi][s.position].status # "none"
        /\ signatures_[n][s.qi][s.position].status # Status(s.approval)

\* C2: with subquorums of an accepted size, approved() and rejected() are
\* never both true of the blink tx of a node.
C2_VerdictsExclusive ==
    \A n \in Nodes :
        get_blink_quorums_ok(blink_quorums, blink_quorums)
            => ~(approved(signatures_[n]) /\ rejected(signatures_[n], blink_quorums))

\* the tx is approved although a validator rejected it
C2_Witness ==
    \E n \in Nodes :
        /\ approved(signatures_[n])
        /\ \E qi \in SubQ, p \in Positions : signatures_[n][qi][p].status = "rejected"

\* C3: once approved() is true on a node it stays true, once rejected() is
\* true it stays true.
C3_VerdictIrreversible ==
    [][\A n \in Nodes :
          /\ approved(signatures_[n]) => approved(signatures_'[n])
          /\ rejected(signatures_[n], blink_quorums)
                => rejected(signatures_'[n], blink_quorums')]_vars

\* the tx is rejected and approvals were stored as well
C3_Witness ==
    \E n \in Nodes :
        /\ rejected(signatures_[n], blink_quorums)
        /\ \E qi \in SubQ, p \in Positions :
              /\ signatures_[n][qi][p].status = "approved"
              /\ signatures_[n][qi][p].sig.signer # n

\* the verdict messages with a given tag among the messages node n sent
Verdicts(n, tag) ==
    LET S == {m \in BagToSet(sent[n]) : m.cmd \in {"bl_good", "bl_bad"} /\ m.tag = tag}
    IN BagCardinality([m \in S |-> sent[n][m]])

\* C5: for one reply tag a node sends at most one verdict message (bl_good or
\* bl_bad), for every interleaving of the handlers.
C5_OneVerdictPerTag ==
    \A n \in Nodes, tag \in Tags : Verdicts(n, tag) <= 1

\* no handler is running on node n
Quiet(n) == \A w \in Workers : thr[n][w].pc = "idle"

\* C6: when no handler is running on a node that recorded the tag and the
\* sender of a tagged blink and whose blink tx is approved (rejected), the
\* bl_good (bl_bad) with that tag has been sent to that sender.
C6_VerdictReachesSubmitter ==
    \A n \in Nodes :
        LET entry == blinks[n]
            reached(cmd) == CopiesIn(Msg(entry.reply_pubkey, cmd, TRUE, entry.reply_tag, ""),
                                     sent[n]) > 0
        IN (Quiet(n) /\ entry.reply_tag # 0 /\ entry.reply_pubkey # "")
              => /\ approved(signatures_[n]) => reached("bl_good")
                 /\ rejected(signatures_[n], blink_quorums) => reached("bl_bad")

\* C4: when the future of a submission holds accepted, an entry point the
\* submission was sent to has an approved blink tx and has sent the bl_good
\* with the tag of the submission (approval is permanent by C3, so the node
\* was approved when it sent the message).
C4_AcceptSafety ==
    \A s \in Submissions :
        future[s] = <<"accepted", "">>
            => \E n \in sb[s].remotes \cap Nodes :
                  /\ approved(signatures_[n])
                  /\ CopiesIn(Msg(Client, "bl_good", TRUE, sb[s].tag, ""), sent[n]) > 0

\* a submission was accepted
C4_Witness == \E s \in Submissions : future[s] = <<"accepted", "">>

\* C7: a future that has a value keeps it, whatever handler or sweep runs.
C7_ResolvedOnce ==
    [][\A s \in Submissions : future[s] # Unset => future'[s] = future[s]]_vars

\* responses counted beyond the one that resolved the promise: handlers tried
\* to resolve a promise that had its value
C7_Witness ==
    \E tag \in DOMAIN pending_blink_results :
        LET pbr == pending_blink_results[tag]
            over(c) == IF c > pbr.remote_count \div 2 THEN c - pbr.remote_count \div 2 ELSE 0
        IN /\ future[pbr.promise] # Unset
           /\ pbr.remote_count > 0
           /\ over(pbr.nostart_count) + over(pbr.bad_count) + over(pbr.good_count) >= 2

\* message m of sender v is handled in this step
Arrives(v, m) == delivered' = [delivered EXCEPT ![v] = @ (+) SetToBag({m})]

counter_of(m) ==
    IF m.cmd = "bl_nostart" THEN "nostart_count"
    ELSE IF m.cmd = "bl_bad" THEN "bad_count" ELSE "good_count"

result_of(m) ==
    IF m.cmd = "bl_nostart" THEN <<"rejected", m.e>>
    ELSE IF m.cmd = "bl_bad" THEN <<"rejected", "Transaction rejected by quorum">>
    ELSE <<"accepted", "">>

\* C8: a response for a tag that is not in the table changes neither the table
\* nor a future; a response for a tag in the table adds one to the counter of
\* its kind and changes nothing else in the table, and it gives the future the
\* result of its kind if the new count exceeds remote_count / 2 and the
\* promise had no value, and leaves every future alone otherwise.
C8_ResponseAggregation ==
    [][\A v \in AllValidators : \A m \in BagToSet(delivered'[v]) :
          (Arrives(v, m) /\ m.to = Client)
              => IF m.tag \notin DOMAIN pending_blink_results
                 THEN UNCHANGED <<pending_blink_results, future>>
                 ELSE LET pbr == pending_blink_results[m.tag]
                          k == counter_of(m)
                      IN /\ pending_blink_results' =
                               [pending_blink_results EXCEPT ![m.tag][k] = @ + 1]
                         /\ future' =
                               IF pbr[k] + 1 > pbr.remote_count \div 2
                                     /\ future[pbr.promise] = Unset
                               THEN [future EXCEPT ![pbr.promise] = result_of(m)]
                               ELSE future]_vars

\* two of three entry points answered bl_good after one answered otherwise
C8_Witness ==
    \E tag \in DOMAIN pending_blink_results :
        LET pbr == pending_blink_results[tag]
        IN /\ pbr.remote_count = 3
           /\ pbr.good_count = 2
           /\ pbr.nostart_count + pbr.bad_count = 1
           /\ future[pbr.promise] = <<"accepted", "">>

\* C9: a pending submission is resolved as timed out only when its expiry time
\* has passed.
C9_SweepOnlyExpired ==
    [][\A tag \in DOMAIN pending_blink_results :
          LET pbr == pending_blink_results[tag]
          IN (future[pbr.promise] = Unset
                 /\ future'[pbr.promise] = <<"timeout", "Blink quorum timeout">>)
                => pbr.expiry <= now]_vars

\* a send_blink call that got as far as the sweep
Sweeps(s) ==
    /\ sb[s].pc = "idle"
    /\ sb'[s].pc # "idle"
    /\ future'[s] # <<"rejected", "Could not parse transaction data">>

\* C10: a send_blink call resolves as timed out and erases every submission
\* whose expiry time has passed without a response.
C10_ExpiredIsTimedOut ==
    [][\A s \in Submissions : \A tag \in DOMAIN pending_blink_results :
          LET pbr == pending_blink_results[tag]
          IN (Sweeps(s) /\ pbr.expiry < now /\ future[pbr.promise] = Unset
                 /\ pbr.nostart_count + pbr.bad_count + pbr.good_count = 0)
                => /\ future'[pbr.promise] = <<"timeout", "Blink quorum timeout">>
                   /\ \/ tag \notin DOMAIN pending_blink_results'
                      \/ pending_blink_results'[tag].promise # pbr.promise]_vars

\* C11: a send_blink call for a tx whose hash is the hash of a pending
\* submission that has not expired and whose promise has no value gives its own
\* future (rejected, already submitted), leaves the table, that submission and
\* its future as they are and sends nothing.
C11_DuplicateSubmission ==
    [][\A s \in Submissions, blob \in SubmitBlobs :
          \A tag \in DOMAIN pending_blink_results :
             LET pbr == pending_blink_results[tag]
             IN (send_blink(s, blob)
                    /\ pbr.hash = parse_and_validate_tx_from_blob(blob)
                    /\ pbr.expiry > now
                    /\ future[pbr.promise] = Unset)
                   => /\ future'[s] = <<"rejected", "Transaction was already submitted">>
                      /\ sb'[s].pc = "done"
                      /\ pending_blink_results' = pending_blink_results
                      /\ future'[pbr.promise] = Unset
                      /\ blink_net' = blink_net]_vars

\* a signature that process_blink_signatures would store: its position is
\* valid, its slot is empty and it verifies against the validator of the slot
Storable(n, s) ==
    /\ ValidPosition(blink_quorums, s)
    /\ get_signature_status(signatures_[n], s.qi, s.position) = "none"
    /\ check_signature(s.approval, validators(blink_quorums, s.qi)[s.position + 1], s.sig)

\* C13: when no handler is running on a node that knows the blink tx, no
\* signature the node received in a blink_sign is left outside the slots: the
\* pending signatures of the cache entry hold no signature that is valid for a
\* slot that is still empty.
C13_NoSignatureLost ==
    \A n \in Nodes :
        (Quiet(n) /\ blinks[n].btxptr) => \A s \in blinks[n].pending_sigs : ~Storable(n, s)

\* |h - height| <= 2 on the integers
InRange(h, height) == h - height <= 2 /\ height - h <= 2

HeightRefusal(m) ==
    Msg(m.from, "bl_nostart", FALSE, m.tag, "Invalid blink authorization height")

\* C12: a blink message with a height h passes the height check exactly when
\* |h - local height| <= 2, at every local height: a message out of range
\* changes nothing but is answered bl_nostart "Invalid blink authorization
\* height" if it has a tag; a message in range is never answered that.
C12_HeightWindow ==
    [][\A n \in Nodes, w \in Workers : \A m \in RawBlinks(blink_quorums, local_height) :
          (handle_blink(n, w, m) /\ m.parts = 1 /\ m.h >= 0)
              => IF InRange(m.h, local_height)
                 THEN CopiesIn(HeightRefusal(m), sent'[n]) = CopiesIn(HeightRefusal(m), sent[n])
                 ELSE /\ sent' = [sent EXCEPT ![n] = @ (+) NoStart(m, "Invalid blink authorization height")]
                      /\ thr'[n][w].pc = "idle"
                      /\ UNCHANGED <<blinks, signatures_>>]_vars

\* the four lists have one length, and that length is at least 1
EqualNonEmpty(m) ==
    /\ Len(m.i) >= 1
    /\ Len(m.p) = Len(m.i) /\ Len(m.r) = Len(m.i) /\ Len(m.s) = Len(m.i)

\* C15: a blink_sign message whose four lists do not all have the same length
\* of at least 1 is rejected: the handler stops there, the cache, the slots and
\* the messages sent stay as they are.
C15_ListsEqualNonEmpty ==
    [][\A n \in Nodes, w \in Workers : \A m \in RawSigns(blink_quorums, local_height) :
          \A order \in ListOrders :
             (blink_sign(n, w, m, order) /\ ~EqualNonEmpty(m))
                 => /\ thr'[n][w].pc = "idle"
                    /\ UNCHANGED <<blinks, signatures_, sent>>]_vars

\* C18: no handler call is left by an exception.
C18_NoErrorEscapes ==
    \A n \in Nodes, w \in Workers : thr[n][w].raised = ""

\* the signature is one for a slot of the quorums and verifies against the
\* validator of that slot
Genuine(s) ==
    /\ s.qi \in SubQ
    /\ ValidPosition(blink_quorums, s)
    /\ check_signature(s.approval, validators(blink_quorums, s.qi)[s.position + 1], s.sig)

\* C14: every filled slot (sub, pos) has pos < |Q_sub| and holds a signature
\* that verifies, for the result the slot shows, against validator Q_sub[pos];
\* and every signature a node relays is such a signature.  Signatures that
\* fail a check are neither stored nor relayed, whether they came in a
\* blink_sign or out of pending_sigs.
C14_StoredOnlyVerified ==
    \A n \in Nodes :
        /\ \A qi \in SubQ, p \in Positions :
              signatures_[n][qi][p].status # "none"
                  => Genuine([approval |-> signatures_[n][qi][p].status = "approved",
                              qi |-> qi, position |-> p, sig |-> signatures_[n][qi][p].sig])
        /\ \A m \in BagToSet(sent[n]) :
              m.cmd = "blink_sign" => \A k \in 1 .. Len(m.sigs) : Genuine(m.sigs[k])

\* a node that knows the tx has stored a signature and has been handed, from
\* pending_sigs or in a blink_sign, a signature for an empty slot that does not
\* verify
C14_Witness ==
    \E n \in Nodes, w \in Workers :
        /\ thr[n][w].pc = "pbs_check"
        /\ \E qi \in SubQ, p \in Positions : signatures_[n][qi][p].status # "none"
        /\ \E k \in 1 .. Len(thr[n][w].signatures) :
              LET s == thr[n][w].signatures[k]
              IN /\ ValidPosition(blink_quorums, s)
                 /\ signatures_[n][s.qi][s.position].status = "none"
                 /\ ~Genuine(s)

\* the blink tx is in the cache of the node
Known(n, m) == m.hash = TxHash /\ blinks[n].present /\ blinks[n].btxptr

\* the failures of the inbound blink pipeline, in its order
PipelineFailure(n, m) ==
    \/ ~InRange(m.h, local_height)
    \/ m.t = ""
    \/ m.hash = "short"
    \/ /\ ~Known(n, m)
       /\ \/ ~get_blink_quorums_ok(blink_quorums, m.q)
          \/ my_position_count(blink_quorums, n) = 0
          \/ m.t = "junk"
          \/ m.hash # TxHash
          \/ strong_peers(blink_quorums, n, sn_active, {get_pubkey_from_x25519(m.from)}) = {}

NoStartErrors ==
    {"Invalid blink authorization height", "No transaction included in blink request",
     "Invalid transaction hash", "Unable to retrieve blink quorum",
     "Blink tx relayed to non-blink quorum member", "Failed to parse transaction data",
     "No quorum peers are currently reachable"}

\* C16: a blink message that fails a check of the pipeline is answered with
\* exactly one bl_nostart that carries its tag if the tag is not 0 and with
\* nothing otherwise, and the handler stops there: the cache and the slots stay
\* as they are, nothing else is sent, the tx is neither installed nor signed.
C16_FailureFrame ==
    [][\A n \in Nodes, w \in Workers : \A m \in RawBlinks(blink_quorums, local_height) :
          (handle_blink(n, w, m) /\ m.parts = 1 /\ m.h >= 0 /\ PipelineFailure(n, m))
              => /\ \E e \in NoStartErrors :
                       sent' = [sent EXCEPT ![n] = @ (+)
                                   (IF m.tag # 0
                                    THEN SetToBag({Msg(m.from, "bl_nostart", FALSE, m.tag, e)})
                                    ELSE EmptyBag)]
                 /\ thr'[n][w].pc = "idle"
                 /\ UNCHANGED <<blinks, signatures_>>]_vars

\* the node refused a tagged blink at the last check of the pipeline, and
\* dropped one without a tag
C16_Witness ==
    \E n \in Nodes :
        /\ msgs[n] = 0
        /\ sent[n] = SetToBag({Msg(Client, "bl_nostart", FALSE, 1,
                                   "No quorum peers are currently reachable")})

\* the members of the two subquorums
Members ==
    UNION {{validators(blink_quorums, qi)[j] : j \in 1 .. Len(validators(blink_quorums, qi))}
              : qi \in SubQ}

\* every slot of both subquorums is approved on every member
AllApproved ==
    \A n \in Members \cap Nodes : \A qi \in SubQ :
        \A p \in 0 .. (Len(validators(blink_quorums, qi)) - 1) :
            signatures_[n][qi][p].status = "approved"

\* C19: on the happy path every member eventually holds an approval in every
\* slot of both subquorums and the future of the submission eventually holds
\* (accepted, ""), also when Q and Q' share no member.
C19_HappyPath ==
    <>(AllApproved /\ future[1] = <<"accepted", "">>)

\* the votes the round trip is promised for
LegalVote(vote) == vote.group # "invalid"

\* C17: for every legal vote, deserialize_vote(serialize_vote(vote)) is the
\* vote itself, in every field, state_change.state included.
C17_VoteRoundTrip ==
    LET t == thr[VoteNode][VoteWorker]
    IN (t.pc = "result" /\ LegalVote(t.vote)) =>
          (t.result.raised = "" /\ t.result.vote = t.vote)

\* C20: the table of pending submissions never holds more than
\* MAX_ACTIVE_PROMISES entries; a send_blink call that finds the table full
\* after its sweep resolves its future with (rejected, "Node is busy, try
\* again later"), creates no entry and sends nothing.
C20_Busy ==
    /\ Cardinality(DOMAIN pending_blink_results) <= MAX_ACTIVE_PROMISES
    /\ \A s \in Submissions :
          future[s] = <<"rejected", "Node is busy, try again later">> =>
             /\ sb[s] = DoneCall
             /\ \A t \in DOMAIN pending_blink_results : pending_blink_results[t].promise # s

C20_Witness ==
    \E s \in Submissions : future[s] = <<"rejected", "Node is busy, try again later">>

\* C21: the tag of an entry that a send_blink call creates is not 0 and is
\* the tag of no entry that its sweep left in the table; those entries stay as
\* they are, and no two entries of the table belong to the same submission.
C21_TagsUnique ==
    [][\A s \in Submissions :
          (sb[s].pc = "idle" /\ sb'[s].pc = "send") =>
             LET live == DOMAIN pending_blink_results \ swept(pending_blink_results, now)
                 tag == sb'[s].tag
             IN /\ tag # 0
                /\ tag \notin live
                /\ tag \in DOMAIN pending_blink_results'
                /\ pending_blink_results'[tag].promise = s
                /\ \A t \in live :
                      /\ t \in DOMAIN pending_blink_results'
                      /\ pending_blink_results'[t] = pending_blink_results[t]
                /\ \A t1, t2 \in DOMAIN pending_blink_results' :
                      t1 # t2 => pending_blink_results'[t1].promise
                                    # pending_blink_results'[t2].promise]_vars

\* a call has just created its entry next to the entry of an earlier call
C21_Witness ==
    \E s \in Submissions : \E t \in DOMAIN pending_blink_results :
        /\ sb[s].pc = "send"
        /\ t # sb[s].tag
        /\ sb[s].tag \in DOMAIN pending_blink_results
        /\ pending_blink_results[sb[s].tag].promise = s
        /\ pending_blink_results[t].promise # s

\* the entries whose promise a response has resolved and that are still in
\* the table
Resolved == {t \in DOMAIN pending_blink_results :
                future[pending_blink_results[t].promise] # Unset}

\* C22: a send_blink call that starts after a response resolved a submission
\* does not treat the entry of that submission as outstanding: the entry is
\* gone when the call returns, and the call reports a duplicate or a full table
\* only because of entries that are not resolved.
C22_ResolvedIsRemoved ==
    [][\A s \in Submissions :
          Sweeps(s) =>
             LET outstanding == DOMAIN pending_blink_results \ Resolved
             IN /\ \A t \in Resolved :
                      \/ t \notin DOMAIN pending_blink_results'
                      \/ pending_blink_results'[t].promise = s
                /\ future'[s] = <<"rejected", "Transaction was already submitted">> =>
                      \E t \in outstanding, blob \in TableBlobs :
                          /\ send_blink_tags(s, blob, TableTags)
                          /\ pending_blink_results[t].hash =
                                parse_and_validate_tx_from_blob(blob)
                /\ future'[s] = <<"rejected", "Node is busy, try again later">> =>
                      busy(Cardinality(outstanding))]_vars

\* the cache of node n holds the entry and its height is behind the window of
\* heights the node accepts
Stale(n) == blinks[n].present /\ height_too_low(BlinkHeight, local_height)

\* C23: once the height of a cache entry is behind the window, an insert into
\* the cache drops it: the blink_tx, the pending signatures and the reply tag of
\* the entry are not kept.
C23_PrunedByHeight ==
    [][\A n \in Nodes :
          (Stale(n) /\ blinks'[n] # blinks[n]) =>
             /\ ~(blinks[n].btxptr /\ blinks'[n].btxptr)
             /\ blinks[n].pending_sigs \cap blinks'[n].pending_sigs = {}
             /\ blinks[n].reply_tag # 0 => blinks'[n].reply_tag = 0]_vars

\* C24: when a handler of a blink with tag > 0 finds (under the unique lock, or
\* in the check before) that the cache entry holds a blink_tx and no reply tag,
\* the entry holds the tag and the sender of that blink when the handler is
\* done with the cache.
C24_LateTagRecorded ==
    [][\A n \in Nodes, w \in Workers :
          LET t == thr[n][w]
          IN (/\ hb_install(n, w) \/ hb_dup_pubkey(n, w)
              /\ t.tag > 0
              /\ blinks[n].btxptr
              /\ blinks[n].reply_tag \in {0, t.tag})
             => /\ blinks'[n].reply_tag = t.tag
                /\ blinks'[n].reply_pubkey = t.pubkey]_vars

\* the signatures that exist at node n: in a slot of n, in the hands of a
\* worker of n, or in a message n sent
OwnSignatures(n) ==
    {signatures_[n][qi][p].sig : qi \in SubQ, p \in Positions}
    \cup UNION {{t.signatures[i].sig : i \in 1 .. Len(t.signatures)}
                   : t \in {thr[n][w] : w \in Workers}}
    \cup UNION {{m.sigs[i].sig : i \in 1 .. Len(m.sigs)} : m \in SentTo(n)}

\* C25: a node installs one blink_tx for the tx and keeps it; one handle_blink
\* call forwards the blink, asks the mempool and signs, so each peer is sent the
\* blink at most once and the node never signs both an approval and a rejection.
C25_OneInstall ==
    \A n \in Nodes :
       /\ Cardinality({w \in Workers : thr[n][w].pc = "hb_relay"}) <= 1
       /\ (\E w \in Workers : thr[n][w].pc = "hb_relay") => blinks[n].btxptr
       /\ \A m \in SentTo(n) : m.cmd = "blink" => CopiesIn(m, sent[n]) = 1
       /\ \A s1, s2 \in OwnSignatures(n) :
             (s1.signer = n /\ s2.signer = n) => s1.bit = s2.bit

\* two handlers of the blink passed the first check; one installed its
\* blink_tx and signed, the other is about to take the unique lock
C25_Witness ==
    \E n \in Nodes, w1, w2 \in Workers :
       /\ thr[n][w1].pc = "pbs_insert"
       /\ \E i \in 1 .. Len(thr[n][w1].signatures) : thr[n][w1].signatures[i].sig.signer = n
       /\ thr[n][w2].pc = "hb_install"

\* the blink_sign messages in a bag of sent messages
Relayed(bag) == {m \in BagToSet(bag) : m.cmd = "blink_sign"}

\* message m carries a signature of slot (qi, p)
Carries(m, qi, p) == \E i \in 1 .. Len(m.sigs) : m.sigs[i].qi = qi /\ m.sigs[i].position = p

\* node n sent no peer two signatures of one slot
RelayedOnce(n) ==
    /\ \A m \in Relayed(sent[n]) :
          /\ CopiesIn(m, sent[n]) = 1
          /\ \A i, j \in 1 .. Len(m.sigs) :
                (m.sigs[i].qi = m.sigs[j].qi /\ m.sigs[i].position = m.sigs[j].position)
                   => i = j
    /\ \A m1, m2 \in Relayed(sent[n]) :
          (m1 # m2 /\ m1.to = m2.to)
             => \A qi \in SubQ, p \in Positions : ~(Carries(m1, qi, p) /\ Carries(m2, qi, p))

\* C26: the blink_sign messages a step sends carry only signatures whose slot
\* the step filled, a step that fills no slot sends none, and so no peer is
\* sent a signature of one slot twice.
C26_RelayOncePerSlot ==
    [][\A n \in Nodes :
          /\ \A m \in Relayed(sent'[n] (-) sent[n]) :
                /\ m.sigs # <<>>
                /\ \A i \in 1 .. Len(m.sigs) :
                      LET sig == m.sigs[i]
                      IN /\ signatures_[n][sig.qi][sig.position].status = "none"
                         /\ signatures_'[n][sig.qi][sig.position] =
                               [status |-> Status(sig.approval), sig |-> sig.sig]
          /\ RelayedOnce(n)']_vars

\* a node relayed the signature of a slot, and a worker that found the slot
\* empty in its first check is about to try the insertion
C26_Witness ==
    \E n \in Nodes, w \in Workers :
       /\ thr[n][w].pc = "pbs_insert"
       /\ \E i \in 1 .. Len(thr[n][w].signatures) :
             LET sig == thr[n][w].signatures[i]
             IN /\ signatures_[n][sig.qi][sig.position].status # "none"
                /\ \E m \in Relayed(sent[n]) : Carries(m, sig.qi, sig.position)

\* the messages a step of node n sends with command cmd
NewlySent(n, cmd) == {m \in BagToSet(sent'[n] (-) sent[n]) : m.cmd = cmd}

\* the keys the edges between the subquorums add for node n
BridgeTargets(qs, n) ==
    UNION {bridge_next(qs, n, qi) \cup bridge_prev(qs, n, qi) : qi \in SubQ}

\* C27: the peer set of a node holds neither the node nor an excluded key, a
\* blink is not forwarded to the node it came from, and signatures are not
\* relayed to the node they came from.
C27_NoRelayBack ==
    [][\A n \in Nodes :
          LET t == thr[n][PeerWorker]
          IN /\ \A exclude \in SUBSET AllValidators :
                   (strong_peers(blink_quorums, n, sn_active, exclude)
                       \cup weak_peers(blink_quorums, n, sn_active, exclude))
                     \cap (exclude \cup {n}) = {}
             /\ hb_relay(n, PeerWorker)
                   => \A m \in NewlySent(n, "blink") : m.to \notin {n, t.pubkey}
             /\ pbs_insert(n, PeerWorker)
                   => \A m \in NewlySent(n, "blink_sign") : m.to \notin {n, t.received_from}]_vars

\* a node relayed the signatures it received from the service node that
\* signed them; the key of that node is one an edge between the subquorums
\* adds and is a peer of the node when nothing is excluded; the node has not
\* sent it those signatures
C27_Witness ==
    \E n \in Nodes : \E m \in Relayed(sent[n]) :
       LET from == m.sigs[1].sig.signer
       IN /\ from # n
          /\ from \in BridgeTargets(blink_quorums, n)
          /\ from \in strong_peers(blink_quorums, n, sn_active, {})
          /\ \A m2 \in Relayed(sent[n]) : m2.sigs = m.sigs => m2.to # from

\* key v is in the directory and is not the sender a relay of worker w of
\* node n leaves out
Reachable(n, w, v) ==
    v \in sn_active /\ v # n /\ v # get_pubkey_from_x25519(thr[n][w].pubkey)

\* C28: when a node that is in subquorum qi and not in the next one, at a
\* position pos with half <= pos < 2 * half, forwards a blink, the validator at
\* position pos - half of the next subquorum is sent the blink as a strong
\* peer, if it is in the directory and is not the sender.
C28_BridgeToNext ==
    [][\A n \in Nodes, qi \in SubQ :
          LET pos == my_position(blink_quorums, n, qi)
              v == validators(blink_quorums, qi)
              next == validators(blink_quorums, qi + 1)
              half == Min(Len(v), Len(next)) \div 2
          IN (/\ hb_relay(n, PeerWorker)
              /\ pos >= 0
              /\ qi + 1 \in SubQ
              /\ my_position(blink_quorums, n, qi + 1) < 0
              /\ pos >= half /\ pos < 2 * half
              /\ Reachable(n, PeerWorker, next[(pos - half) + 1]))
             => \E m \in NewlySent(n, "blink") :
                   m.to = next[(pos - half) + 1] /\ ~m.optional]_vars

\* C29: when a node that is in subquorum qi and not in the previous one, at a
\* position pos < half, forwards a blink, the validator at position half + pos
\* of the previous subquorum is sent the blink as a weak peer, if it is in the
\* directory and is not the sender; a node that is in both subquorums has no
\* edge between the subquorums.
C29_BridgeToPrev ==
    [][\A n \in Nodes, qi \in SubQ :
          LET pos == my_position(blink_quorums, n, qi)
              v == validators(blink_quorums, qi)
              prev == validators(blink_quorums, qi - 1)
              half == Min(Len(v), Len(prev)) \div 2
          IN /\ (/\ hb_relay(n, PeerWorker)
                 /\ pos >= 0
                 /\ qi - 1 \in SubQ
                 /\ my_position(blink_quorums, n, qi - 1) < 0
                 /\ pos < half
                 /\ Reachable(n, PeerWorker, prev[(half + pos) + 1]))
                => \E m \in NewlySent(n, "blink") :
                      m.to = prev[(half + pos) + 1] /\ m.optional
             /\ my_position_count(blink_quorums, n) = NUM_BLINK_QUORUMS
                => BridgeTargets(blink_quorums, n) = {}]_vars

\* node n is an entry point of a submission that carries `tag`
EntryPoint(n, tag) ==
    \E s \in Submissions :
       /\ sb[s].pc = "done"
       /\ "remotes" \in DOMAIN sb[s]
       /\ n \in sb[s].remotes
       /\ sb[s].tag = tag

Verdict(m) == m.cmd \in {"bl_good", "bl_bad", "bl_nostart"}

\* C30: a blink a service node forwards carries no tag; a cache entry has a
\* reply tag only at a node the submitter sent the blink to with that tag; only
\* such a node sends bl_good, bl_bad or bl_nostart, and with that tag.
C30_OnlyEntryPointsReply ==
    \A n \in Nodes :
       /\ \A m \in SentTo(n) : m.cmd = "blink" => m.tag = 0
       /\ blinks[n].reply_tag # 0 => EntryPoint(n, blinks[n].reply_tag)
       /\ \A m \in SentTo(n) : Verdict(m) => (m.tag # 0 /\ EntryPoint(n, m.tag))

\* a node that is no entry point holds the blink_tx, forwarded to it by an
\* entry point, without a reply tag; the entry point holds the tag and has
\* sent the submitter a verdict
C30_Witness ==
    \E n, e \in Nodes :
       /\ blinks[n].btxptr
       /\ blinks[n].reply_tag = 0
       /\ ~(\E tag \in Tags : EntryPoint(n, tag))
       /\ blinks[e].reply_tag # 0
       /\ EntryPoint(e, blinks[e].reply_tag)
       /\ \E m \in SentTo(e) : m.cmd = "blink" /\ m.to = n
       /\ \E m \in SentTo(e) : Verdict(m)

\* relay_votes relays this vote when node n calls it
Relayable(n, vote) ==
    LET quorum == get_quorum(vote.type, vote.block_height)
    IN /\ quorum # {}
       /\ \A q \in quorum :
             /\ Len(q) >= min_votes_for_quorum_type(vote.type)
             /\ \E j \in 1 .. Len(q) : q[j] = n

\* the data parts of the vote messages a step of node n sends
VotesSent(n) == {m.sigs : m \in NewlySent(n, "vote")}

\* C31: a call of relay_votes sends a vote of the batch if and only if the
\* quorum of its type and height exists, has the minimum size of the type and
\* holds the node (and the node has a peer to send it to); a vote that is not
\* sent does not keep the votes after it from being sent.
C31_RelayOnlyOwnQuorums ==
    [][\A n \in Nodes :
          relay_votes(n, RelayWorker)
             => LET votes == thr[n][RelayWorker].votes
                    peers(vote) ==
                        LET qs == single(CHOOSE q \in get_quorum(vote.type, vote.block_height) : TRUE)
                        IN strong_peers(qs, n, sn_active, {}) \cup weak_peers(qs, n, sn_active, {})
                IN /\ \A m \in NewlySent(n, "vote") :
                         \E i \in 1 .. Len(votes) :
                            /\ m.sigs = <<serialize_vote(votes[i])>>
                            /\ Relayable(n, votes[i])
                   /\ \A i \in 1 .. Len(votes) :
                         (Relayable(n, votes[i]) /\ peers(votes[i]) # {})
                            => <<serialize_vote(votes[i])>> \in VotesSent(n)]_vars

\* a call with two votes has returned: the first one has no usable quorum or
\* one without the node, the second one was sent
C31_Witness ==
    \E n \in Nodes :
       LET t == thr[n][RelayWorker]
       IN /\ t.pc = "idle"
          /\ "votes" \in DOMAIN t
          /\ Len(t.votes) = MaxBatch
          /\ ~Relayable(n, t.votes[1])
          /\ \E m \in SentTo(n) : m.cmd = "vote" /\ m.sigs = <<serialize_vote(t.votes[MaxBatch])>>

\* the vote message a step delivers to node n
VoteDelivered(n) ==
    {m \in UNION {BagToSet(delivered'[src] (-) delivered[src]) : src \in Nodes} :
        m.cmd = "vote" /\ m.to = n}

\* handle_vote would relay this message: one part that deserializes to a vote
\* of a height up to the chain's, which the vote service did not reject and
\* which this call added to the pool
RelayDue(n, m) ==
    /\ Len(m.sigs) = 1
    /\ \E r \in deserialize_vote(m.sigs[1]) :
          /\ r.raised = ""
          /\ r.vote.block_height <= local_height
          /\ r.vote \notin vote_pool[n]
          /\ r.vote \in vote_pool'[n]
          /\ ~thr'[n][FloodWorker].vvc.m_verification_failed
          /\ thr'[n][FloodWorker].vvc.m_added_to_pool

\* no vote message is waiting and no worker is in a call
FloodQuiet ==
    /\ \A n \in Nodes : thr[n][FloodWorker].pc = "idle"
    /\ \A src \in Nodes : \A m \in SentTo(src) :
          m.cmd = "vote" => CopiesIn(m, delivered[src]) = CopiesIn(m, sent[src])

\* C32: a node that handles a vote message goes on to relay the vote exactly
\* when the message has one part that deserializes, the vote's height is not
\* above the chain's, verification did not fail and the vote was added to the
\* pool; with a vote service that adds a vote once, a node sends each vote to
\* each peer at most once, and the flooding comes to an end.
C32_FloodOnceAndEnds ==
    /\ [][\A n \in Nodes :
             RecvVote(n, FloodWorker)
                => \A m \in VoteDelivered(n) :
                      (thr'[n][FloodWorker].pc = "relay_votes") <=> RelayDue(n, m)]_vars
    /\ [](\A n \in FloodMembers : \A m \in SentTo(n) : CopiesIn(m, sent[n]) = 1)
    /\ <>[]FloodQuiet

\* the flooding has ended with the vote in the pool of every member: each
\* member relayed it once, and a member that got it a second time did not
C32_Witness ==
    /\ FloodQuiet
    /\ \A n \in FloodMembers :
          /\ FloodVote \in vote_pool[n]
          /\ \E m \in SentTo(n) : m.sigs = <<serialize_vote(FloodVote)>>
    /\ \E n \in FloodMembers :
          Cardinality({x \in UNION {{<<src, m>> : m \in BagToSet(delivered[src])} : src \in Nodes} :
                          x[2].to = n /\ x[2].sigs = <<serialize_vote(FloodVote)>>}) >= 2

\* C33: a worker that sends a message or verifies signatures holds neither the
\* lock of the blink cache nor the lock of the blink_tx, shared or unique, and
\* a worker that sends the tagged blink to an entry point does not hold the
\* lock of the pending submissions.
C33_NoSendUnderLock ==
    [][\A n \in Nodes : \A w \in Workers :
          (thr'[n][w] # thr[n][w] /\ "held" \in DOMAIN thr[n][w])
             => /\ (sent'[n] # sent[n] \/ AtStatement(n, w, "verify"))
                     => \A h \in thr[n][w].held : h.lock \notin {CacheLock, BtxLock}
                /\ NewlySent(n, "blink!") # {}
                     => \A h \in thr[n][w].held : h.lock # PendingLock]_vars

\* a worker has just relayed signatures while the other worker, which has
\* verified its own, is inside a critical section of the blink_tx
C33_Witness ==
    \E n \in Nodes : \E w \in Workers :
        /\ "held" \in DOMAIN thr[n][w]
        /\ thr[n][w].did = "send"
        /\ thr[n][w].held = {}
        /\ \E m \in SentTo(n) : m.cmd = "blink_sign"
        /\ \E w2 \in Workers \ {w} :
              /\ "held" \in DOMAIN thr[n][w2]
              /\ \E h \in thr[n][w2].held : h.lock = BtxLock

\* the values of which some node holds a signature of validator v
SignedValues(v) ==
    {signatures_[x[1]][x[2]][x[3]].sig.bit :
        x \in {y \in Nodes \X SubQ \X Positions :
                  /\ signatures_[y[1]][y[2]][y[3]].status # "none"
                  /\ signatures_[y[1]][y[2]][y[3]].sig.signer = v}}

\* C34: as long as no validator has signed both an approval and a rejection
\* of the tx, no node holds it approved while another node holds it rejected.
C34_NodesAgree ==
    (\A v \in AllValidators : Cardinality(SignedValues(v)) <= 1)
       => ~ \E a \in Nodes, b \in Nodes :
              /\ blinks[a].btxptr /\ approved(signatures_[a])
              /\ blinks[b].btxptr /\ rejected(signatures_[b], blink_quorums)

\* one node holds the tx approved; the other holds it too, with a rejection
\* among its signatures, and no validator signed two values
C34_Witness ==
    /\ \A v \in AllValidators : Cardinality(SignedValues(v)) <= 1
    /\ \E a \in AgreeNodes, b \in AgreeNodes :
          /\ a # b
          /\ blinks[a].btxptr /\ approved(signatures_[a])
          /\ blinks[b].btxptr
          /\ \E qi \in SubQ, p \in Positions : signatures_[b][qi][p].status = "rejected"
          /\ \E qi \in SubQ, p \in Positions : signatures_[b][qi][p].status = "approved"

\* the entry points of submission s whose bl_good the submitter has handled
GoodFrom(s) ==
    {n \in sb[s].remotes :
        \E m \in BagToSet(delivered[n]) : m.cmd = "bl_good" /\ m.tag = sb[s].tag}

\* C35: a future holds accepted only if more than half of the entry points
\* the blink was sent to have each sent a bl_good that was handled; a second
\* bl_good of the same entry point adds nothing.
C35_DistinctMajority ==
    \A s \in Submissions :
        future[s][1] = "accepted"
           => Cardinality(GoodFrom(s)) > Cardinality(sb[s].remotes) \div 2

\* the tag and sender of the tagged blink messages, and the unset pair
SubmissionPairs == {<<o[1], o[2]>> : o \in {x \in BlinkOrigins : x[1] # 0}} \cup {<<0, "">>}

\* C36: a reply_tag that is set is never replaced, and once no handler is
\* between the two stores, reply_tag and reply_pubkey of an entry are the
\* tag and the sender of one and the same blink message.
C36_TagPairOnce ==
    [][\A n \in Nodes :
          /\ blinks[n].reply_tag # 0 => blinks'[n].reply_tag = blinks[n].reply_tag
          /\ (\A w \in Workers : thr'[n][w].pc # "hb_dup_pubkey")
                => <<blinks'[n].reply_tag, blinks'[n].reply_pubkey>> \in SubmissionPairs]_vars

\* C37: once the send_blink call that created an entry of the pending table
\* has ended, it has ended with the tag of that entry (it returned its future;
\* a call that ended in an exception holds no tag), and the entry's
\* remote_count is the number of entry points the call sent the blink to.
C37_NoOrphan ==
    \A tag \in DOMAIN pending_blink_results :
        LET s == pending_blink_results[tag].promise
        IN sb[s].pc = "done"
              => /\ sb[s].tag = tag
                 /\ pending_blink_results[tag].remote_count = Cardinality(sb[s].remotes)

\* C38: a call of handle_uptime_proof that returns false leaves
\* m_uptime_proof_seen as it was, so that a tested node has an entry, and is
\* spared the deregister vote, only after a proof of it was accepted.
C38_RejectedProofLeavesNoTrace ==
    [][(ret'.op = "handle_uptime_proof" /\ ~ret'.result)
          => m_uptime_proof_seen' = m_uptime_proof_seen]_vars

\* C39: an add_block or pop_block call that returns false leaves the height
\* and every stored balance as they were; a call that returns true moves
\* the height by +1 (add_block) or -1 (pop_block).
C39_LedgerAtomic ==
    [][/\ (ret'.op \in {"add_block", "pop_block"} /\ ~ret'.result)
             => (db_height' = db_height /\ batch_sn_payments' = batch_sn_payments)
       /\ (ret'.op = "add_block" /\ ret'.result)
             => db_height' = db_height + 1
       /\ (ret'.op = "pop_block" /\ ret'.result)
             => db_height' = db_height - 1]_vars

\* C40: calculate_rewards gives contributor i of a block on the chain
\* floor(reward * amount_i / total) whenever the total contribution is
\* positive.
C40_ProportionalSplit ==
    \A h \in DOMAIN chain :
        LET block == chain[h]
            total == total_contributed(block.contributors)
            payments == calculate_rewards(block, block.contributors)
        IN (block.major_version >= network_version_19 /\ total > 0)
              => \A i \in DOMAIN payments :
                    payments[i].amount
                        = ((block.reward * block.contributors[i].amount) % AmountModulus) \div total

====
